---- MODULE Spec2Model ----
\* Model of the LoRa link calculator and the terrain / line-of-sight analyzer
\* (src/lora-calculator.js: classes LoRaCalculator and ElevationService).
\*
\* Numbers.  The JavaScript code computes on IEEE-754 doubles.  The terrain
\* part is modelled in exact arithmetic: heights are rationals over the
\* common denominator HeightDen, and every comparison that involves the
\* Fresnel radius (a square root) is decided exactly by comparing squares of
\* integers, held as arbitrary-precision naturals (sequences of base-10000
\* limbs) because the products exceed 32 bits.  Infinity and NaN, which the
\* code can produce, are separate values with the comparison rules of
\* JavaScript (every comparison with NaN is false).
\*
\* Specifications.  Each entry point is checked under its own specification,
\* which draws the arguments at the start and makes the call in one step:
\* SpecLoS (analyzeLineOfSight), SpecRF (calculateLinkBudget and
\* calculateMaxRange), SpecRec (getRecommendedSettings), SpecPath
\* (getElevationProfile with interpolatePath), SpecFresnel
\* (calculateFresnelRadius and calculateMaxFresnelRadius), SpecAir
\* (calculateTimeOnAir) and SpecLink (the analysis of one link by the
\* application, src/app.js).
\*
\* Application.  The handlers of src/app.js are asynchronous: a handler runs
\* to its next await in one step, and the resolution of what it awaits is a
\* later step, taken in any order with the other handlers.  Four
\* specifications restrict what the user does: SpecApp (points, markers and
\* the coverage layer), SpecMarkers (points added one after the other, then
\* the markers' own handlers), SpecAnalysis (points and one analysis at a
\* time) and SpecOverlap (analyses started while others are in flight).
EXTENDS Integers, Sequences, FiniteSets, TLC

VARIABLES
    elevationProfile,   \* argument of analyzeLineOfSight: [profile, totalDistance]
    point1Height,       \* antenna height above ground at the first sample (m)
    point2Height,       \* antenna height above ground at the last sample (m)
    frequency,          \* MHz
    buildings,          \* array of [lat, lon, height]
    losAnalysis,        \* what analyzeLineOfSight returned, or NoResult
    params,             \* argument of calculateLinkBudget and calculateMaxRange
    linkBudget,         \* outcome of calculateLinkBudget(params), or NoResult
    maxRange,           \* outcome of calculateMaxRange(params), or NoResult
    rangeBudget,        \* outcome of calculateLinkBudget at distance maxRange, or NoResult
    recInput,           \* arguments of getRecommendedSettings: [distanceKm, frequency]
    recommendations,    \* outcome of getRecommendedSettings, or NoResult
    pathInput,          \* arguments of getElevationProfile and what it awaits
    pathProfile,        \* what getElevationProfile returned, or NoResult
    fresnelInput,       \* arguments of the Fresnel radius functions: [d1, d2, frequencyMHz]
    fresnelRadii,       \* what the two Fresnel radius functions returned, or NoResult
    airInput,           \* arguments of calculateTimeOnAir: [payloadBytes, sf, bw, cr]
    timeOnAir,          \* what calculateTimeOnAir returned, or NoResult
    linkColor,          \* colour given to the polyline of an analysed link, or NoResult
    appState,           \* the application state object of src/app.js
    loraParams,         \* the LoRa parameters set in the panel
    linkAnalysisDiv,    \* what the link analysis panel shows
    pointIndexOf,       \* pointIndex held by the handlers of each marker created
    addPointCalls,      \* addPoint calls awaiting their elevation
    updatePositionCalls, \* updatePointPosition calls awaiting their elevation
    analysisRuns,       \* analyzeLineOfSight calls (src/app.js) in flight
    analysisCalls       \* number of analyses started

losVars == <<elevationProfile, point1Height, point2Height, frequency, buildings,
             losAnalysis>>
rfVars == <<params, linkBudget, maxRange, rangeBudget>>
recVars == <<recInput, recommendations>>
pathVars == <<pathInput, pathProfile>>
fresnelVars == <<fresnelInput, fresnelRadii>>
airVars == <<airInput, timeOnAir>>
calcVars == <<losVars, rfVars, recVars, pathVars, fresnelVars, airVars, linkColor>>
appVars == <<appState, loraParams, linkAnalysisDiv, pointIndexOf, addPointCalls,
             updatePositionCalls, analysisRuns, analysisCalls>>
vars == <<calcVars, appVars>>

-----------------------------------------------------------------------------
\* Bounds and input domains of the terrain model.

\* Largest number of samples of a profile.
MaxSamples == 4

\* Terrain elevations of the samples (m).
Elevations == {0, 10, 22, 500}

\* Path lengths (km); 0 is a path whose endpoints coincide.
Distances == {0, 2, 40}

\* Carrier frequencies offered by the application (MHz).
Frequencies == {433, 868}

\* Antenna heights (m); the application always passes 10 and 10.
Heights1 == {10}
Heights2 == {10, 12}

NoResult == [pending |-> TRUE]

\* getRecommendedSettings is not called.
NoRecCall == recInput = NoResult /\ recommendations = NoResult

\* getElevationProfile is not called.
NoPathCall == pathInput = NoResult /\ pathProfile = NoResult

\* The Fresnel radius functions are not called on their own.
NoFresnelCall == fresnelInput = NoResult /\ fresnelRadii = NoResult

\* calculateTimeOnAir is not called.
NoAirCall == airInput = NoResult /\ timeOnAir = NoResult

\* No link of the application is analysed.
NoLinkCall == linkColor = NoResult

\* appState.currentAnalysis = null
Null == [set |-> FALSE]

\* The application as the page has loaded it: no points, the layers off,
\* the frequency preset of the panel.
AppLoaded ==
    /\ appState = [points |-> <<>>, markers |-> <<>>, polylines |-> 0,
                   addingPoint |-> FALSE, currentAnalysis |-> Null,
                   buildingsEnabled |-> FALSE, coverageCircles |-> <<>>,
                   coverageEnabled |-> FALSE]
    /\ loraParams = [frequency |-> 868]
    /\ linkAnalysisDiv = [shows |-> "placeholder"]
    /\ pointIndexOf = <<>>
    /\ addPointCalls = <<>>
    /\ updatePositionCalls = <<>>
    /\ analysisRuns = {}
    /\ analysisCalls = 0

-----------------------------------------------------------------------------
\* Arbitrary-precision naturals: little-endian sequences of base-10000 limbs.

RECURSIVE BigOf(_)
BigOf(n) == IF n = 0 THEN <<>> ELSE <<n % 10000>> \o BigOf(n \div 10000)

RECURSIVE BigAddC(_, _, _)
BigAddC(a, b, c) ==
    IF a = <<>> /\ b = <<>>
    THEN (IF c = 0 THEN <<>> ELSE <<c>>)
    ELSE LET x == IF a = <<>> THEN 0 ELSE Head(a)
             y == IF b = <<>> THEN 0 ELSE Head(b)
             s == x + y + c
         IN  <<s % 10000>> \o BigAddC(IF a = <<>> THEN a ELSE Tail(a),
                                      IF b = <<>> THEN b ELSE Tail(b),
                                      s \div 10000)

BigAdd(a, b) == BigAddC(a, b, 0)

RECURSIVE BigMulLimb(_, _, _)
BigMulLimb(a, m, c) ==
    IF a = <<>>
    THEN (IF c = 0 THEN <<>> ELSE <<c>>)
    ELSE LET s == Head(a) * m + c
         IN  <<s % 10000>> \o BigMulLimb(Tail(a), m, s \div 10000)

RECURSIVE BigMul(_, _)
BigMul(a, b) ==
    IF a = <<>> \/ b = <<>>
    THEN <<>>
    ELSE BigAdd(BigMulLimb(a, Head(b), 0),
                IF Tail(b) = <<>> THEN <<>> ELSE <<0>> \o BigMul(a, Tail(b)))

RECURSIVE BigTrim(_)
BigTrim(a) ==
    IF a # <<>> /\ a[Len(a)] = 0 THEN BigTrim(SubSeq(a, 1, Len(a) - 1)) ELSE a

RECURSIVE BigLessT(_, _)
BigLessT(a, b) ==
    \* a and b trimmed and of equal length: compare from the top limb down
    IF a = <<>> THEN FALSE
    ELSE IF a[Len(a)] # b[Len(b)] THEN a[Len(a)] < b[Len(b)]
    ELSE BigLessT(SubSeq(a, 1, Len(a) - 1), SubSeq(b, 1, Len(b) - 1))

BigLess(a, b) ==
    LET x == BigTrim(a)
        y == BigTrim(b)
    IN  IF Len(x) # Len(y) THEN Len(x) < Len(y) ELSE BigLessT(x, y)

\* Product of a sequence of naturals.
RECURSIVE BigProd(_)
BigProd(s) == IF s = <<>> THEN <<1>> ELSE BigMul(BigOf(Head(s)), BigProd(Tail(s)))

Abs(x) == IF x < 0 THEN -x ELSE x

\* x * Prod(xm) * sqrt(p) < y * Prod(ym) * sqrt(q), decided exactly, for
\* integers x, y, sequences xm, ym of positive naturals and naturals p, q.
LessSqrt(x, xm, p, y, ym, q) ==
    LET l == BigProd(<<Abs(x), Abs(x), p>> \o xm \o xm)
        r == BigProd(<<Abs(y), Abs(y), q>> \o ym \o ym)
    IN  IF x >= 0
        THEN (IF y <= 0 THEN FALSE ELSE BigLess(l, r))
        ELSE (IF y >= 0 THEN (p > 0 \/ (y > 0 /\ q > 0)) ELSE BigLess(r, l))

-----------------------------------------------------------------------------
\* ElevationService: the profile and the geometry of one sample.
\*
\* A profile of n samples has N = n - 1 segments.  getElevationProfile gives
\* sample i the distance (i / N) * totalDistance and interpolatePath the
\* position point1 + (point2 - point1) * (i / N); the sample records hold
\* these three values as numerators over N.  Positions are metres in a local
\* grid whose lon axis runs along the path (lat = 0 on the path).

\* this.earthRadius, km
earthRadius == 6371

\* 17.3, the coefficient of the Fresnel radius, times 10
fresnelCoeff10 == 173

\* 0.6, the share of the first Fresnel zone that must stay clear, times 10
clearShare10 == 6

\* 0.05 km, the reach of a building around a sample, in metres
buildingReachM == 50

\* Mutant of buildingOverTerrainM: 4 m.
buildingOverTerrainFour == 5 - 1

\* 5 m, the height over terrain above which an obstruction is a building
buildingOverTerrainM == 5

profile == elevationProfile.profile
totalDistance == elevationProfile.totalDistance

\* profile.length
length == Len(profile)

\* profile[i], with the 0-based index of the code
Sample(i) == profile[i + 1]

\* Number of segments, the denominator of distances and positions.
Segments == length - 1

NaN == [kind |-> "nan"]

\* Mutant of interpolatePath: the loop runs while i < numPoints.
interpolatePathExclusive(lat1, lon1, lat2, lon2, numPoints) ==
    [x \in 1..numPoints |->
        [lat |-> lat1 * numPoints + (lat2 - lat1) * (x - 1),
         lon |-> lon1 * numPoints + (lon2 - lon1) * (x - 1)]]

\* interpolatePath(lat1, lon1, lat2, lon2, numPoints): the points
\* i = 0 .. numPoints at lat1 + (lat2 - lat1) * (i / numPoints), and so for
\* lon, held as numerators over numPoints.  With numPoints = 0 the fraction
\* is 0 / 0 and the one point is (NaN, NaN).
interpolatePath(lat1, lon1, lat2, lon2, numPoints) ==
    [x \in 1..(numPoints + 1) |->
        IF numPoints = 0
        THEN [lat |-> NaN, lon |-> NaN]
        ELSE [lat |-> lat1 * numPoints + (lat2 - lat1) * (x - 1),
              lon |-> lon1 * numPoints + (lon2 - lon1) * (x - 1)]]

\* getElevationProfile(point1, point2, numSamples), given what it awaits:
\* the elevations the lookup returns for the path points and the distance
\* calculateDistance finds between the two points.  Sample index gets the
\* distance (index / (pathPoints.length - 1)) * totalDistance, held as a
\* numerator over pathPoints.length - 1 (NaN for a path of one point), and
\* the elevation elevations[index] || 0.
getElevationProfile(point1, point2, numSamples, elevations, distance) ==
    LET pathPoints == interpolatePath(point1.lat, point1.lon,
                                      point2.lat, point2.lon, numSamples)
    IN  [profile |->
            [x \in 1..Len(pathPoints) |->
                [lat       |-> pathPoints[x].lat,
                 lon       |-> pathPoints[x].lon,
                 elevation |-> IF x \in DOMAIN elevations THEN elevations[x] ELSE 0,
                 distance  |-> IF Len(pathPoints) - 1 = 0 THEN NaN
                               ELSE (x - 1) * distance]],
         totalDistance |-> distance]

\* The profile of a path of totalDistance d (km) with the elevations elevs,
\* from (0, 0) to (0, d km): positions in metres.
MakeProfile(elevs, d) ==
    getElevationProfile([lat |-> 0, lon |-> 0], [lat |-> 0, lon |-> d * 1000],
                        Len(elevs) - 1, elevs, d)

\* Heights are rationals over this denominator: 2 * earthRadius * N^2.
HeightDen == 2 * earthRadius * Segments * Segments

\* d1 * d2 in units of (totalDistance / N)^2: i * (N - i).
SplitWeight(i) == i * (Segments - i)

\* startElevation and endElevation (m): ground plus antenna.
startElevation == Sample(0).elevation + point1Height
endElevation == Sample(length - 1).elevation + point2Height

\* d1 / totalDistance is 0 / 0 = NaN on a path of length 0; then lineHeight
\* and all that is computed from it are NaN.
LineIsNaN == totalDistance = 0

\* lineHeight = startElevation + (endElevation - startElevation) * (d1 / totalDistance),
\* with d1 / totalDistance = i / N; numerator over HeightDen.
LineHeightNum(i) ==
    HeightDen * startElevation
    + 2 * earthRadius * Segments * i * (endElevation - startElevation)

\* calculateEarthBulge(d1, d2) = (d1 * d2) / (2 * earthRadius) * 1000 (m);
\* numerator over HeightDen.
EarthBulgeNum(i) == SplitWeight(i) * totalDistance * totalDistance * 1000

\* adjustedLineHeight = lineHeight - earthBulge; numerator over HeightDen.
AdjustedLineHeightNum(i) == LineHeightNum(i) - EarthBulgeNum(i)

\* calculateDistance(point, building) < 0.05 for sample i, on the local grid.
BuildingIsNear(i, b) ==
    LET dx == Segments * b.lon - Sample(i).lon
        dy == Segments * b.lat - Sample(i).lat
        reach == buildingReachM * Segments
    IN  /\ Abs(dx) < reach
        /\ Abs(dy) < reach
        /\ dx * dx + dy * dy < reach * reach

Max(a, b) == IF a > b THEN a ELSE b

\* Mutant of ObstructionHeightUpTo: the last building within reach decides,
\* obstructionHeight = point.elevation + building.height.
RECURSIVE ObstructionHeightLastWins(_, _)
ObstructionHeightLastWins(i, m) ==
    IF m = 0
    THEN Sample(i).elevation
    ELSE IF BuildingIsNear(i, buildings[m])
         THEN Sample(i).elevation + buildings[m].height
         ELSE ObstructionHeightLastWins(i, m - 1)

\* obstructionHeight after the forEach over buildings[1..m].
RECURSIVE ObstructionHeightUpTo(_, _)
ObstructionHeightUpTo(i, m) ==
    IF m = 0
    THEN Sample(i).elevation
    ELSE LET h == ObstructionHeightUpTo(i, m - 1)
         IN  IF BuildingIsNear(i, buildings[m])
             THEN Max(h, Sample(i).elevation + buildings[m].height)
             ELSE h

\* obstructionHeight of sample i (m).
ObstructionHeight(i) == ObstructionHeightUpTo(i, Len(buildings))

\* clearance = adjustedLineHeight - obstructionHeight; numerator over HeightDen.
ClearanceNum(i) == AdjustedLineHeightNum(i) - HeightDen * ObstructionHeight(i)

\* Mutant of calculateFresnelRadius: the first distance taken twice.
calculateFresnelRadiusFirstTwice(d1, d2, frequencyMHz) ==
    IF d1 + d2 = 0
    THEN [product |-> 0, divisor |-> 1]
    ELSE [product |-> d1 * d1, divisor |-> frequencyMHz * (d1 + d2)]

\* calculateFresnelRadius(d1, d2, frequencyMHz):
\*   0 when d1 + d2 = 0, else 17.3 * sqrt((d1 * d2) / (frequencyMHz * (d1 + d2))).
\* The radius is held as the two terms of the quotient under the root; the
\* distances are the numerators over N of the samples, so the radius is
\* 17.3 * sqrt(product / (N * divisor)) metres.
calculateFresnelRadius(d1, d2, frequencyMHz) ==
    IF d1 + d2 = 0
    THEN [product |-> 0, divisor |-> 1]
    ELSE [product |-> d1 * d2, divisor |-> frequencyMHz * (d1 + d2)]

\* Mutant of calculateMaxFresnelRadius: the radius taken a quarter of the way
\* from each end.
calculateMaxFresnelRadiusQuarter(distanceKm, frequencyMHz) ==
    LET d1 == distanceKm \div 4
        d2 == distanceKm \div 4
    IN  calculateFresnelRadius(d1, d2, frequencyMHz)

\* calculateMaxFresnelRadius(distanceKm, frequencyMHz): the radius at
\* d1 = d2 = distanceKm / 2.  The distance is a numerator that is a multiple
\* of 4, so that the halves are numerators over the same N.
calculateMaxFresnelRadius(distanceKm, frequencyMHz) ==
    LET d1 == distanceKm \div 2
        d2 == distanceKm \div 2
    IN  calculateFresnelRadius(d1, d2, frequencyMHz)

\* d1 = point.distance and d2 = totalDistance - d1 of sample i (numerators over N)
D1(i) == Sample(i).distance
D2(i) == totalDistance * Segments - D1(i)

\* localFresnelRadius of sample i
LocalFresnelRadius(i) == calculateFresnelRadius(D1(i), D2(i), frequency)

\* The weight w of localFresnelRadius on a path of positive length:
\* product / (N * divisor) = w * totalDistance / (N^2 * frequency).
RadiusWeight(i) ==
    (LocalFresnelRadius(i).product * Segments * frequency)
        \div (LocalFresnelRadius(i).divisor * totalDistance)

\* A height that involves the local Fresnel radius:
\*   num / HeightDen + (coef10 / 10) * r(w),
\* r(w) = 17.3 * sqrt(d1 * d2 / (frequency * (d1 + d2)))
\*      = (173 / (10 * N)) * sqrt(w * totalDistance / frequency)
\* for a sample of split weight w.  nan marks NaN.
RadiusHeight(n, c, w) == [nan |-> FALSE, num |-> n, coef10 |-> c, w |-> w]
NaNHeight == [nan |-> TRUE]

\* v > 0 for such a height (false for NaN).
IsPositive(v) ==
    /\ ~v.nan
    /\ LessSqrt(-v.coef10, <<fresnelCoeff10, 2, earthRadius, Segments>>,
                v.w * totalDistance,
                v.num, <<100>>, frequency)

\* Mutant of RequiredHeight: the clearance taken below the line,
\* adjustedLineHeight - localFresnelRadius * 0.6.
RequiredHeightBelowLine(i) ==
    IF LineIsNaN THEN NaNHeight
    ELSE RadiusHeight(AdjustedLineHeightNum(i), -clearShare10, RadiusWeight(i))

\* Mutant of RequiredHeight: the whole first Fresnel zone required clear,
\* adjustedLineHeight - localFresnelRadius.
RequiredHeightFullZone(i) ==
    IF LineIsNaN THEN NaNHeight
    ELSE RadiusHeight(AdjustedLineHeightNum(i), -10, RadiusWeight(i))

\* requiredHeight = adjustedLineHeight + localFresnelRadius * 0.6
RequiredHeight(i) ==
    IF LineIsNaN THEN NaNHeight
    ELSE RadiusHeight(AdjustedLineHeightNum(i), clearShare10, RadiusWeight(i))

\* obstructionHeight - requiredHeight
Excess(i) ==
    LET req == RequiredHeight(i)
    IN  IF req.nan THEN NaNHeight
        ELSE RadiusHeight(HeightDen * ObstructionHeight(i) - req.num,
                          -req.coef10, req.w)

\* obstructionHeight > requiredHeight
IsObstructed(i) == IsPositive(Excess(i))

-----------------------------------------------------------------------------
\* Fresnel clearance percentages: a literal number, +Infinity, NaN, or
\* (clearance / localFresnelRadius) * 100 of a sample, held as the clearance
\* numerator and the split weight of the sample.

Infinity == [kind |-> "inf"]
Literal(x) == [kind |-> "lit", value |-> x]
Ratio(c, w) == [kind |-> "ratio", clr |-> c, w |-> w]

\* fresnelClearancePercent = (clearance / localFresnelRadius) * 100
FresnelClearancePercent(i) ==
    IF LineIsNaN THEN NaN ELSE Ratio(ClearanceNum(i), RadiusWeight(i))

\* p < t for a percentage p and an integer t, as JavaScript compares.
PercentLess(p, t) ==
    CASE p.kind = "nan" -> FALSE
      [] p.kind = "inf" -> FALSE
      [] p.kind = "lit" -> p.value < t
      [] p.kind = "ratio" ->
            LessSqrt(p.clr, <<1000>>, frequency,
                     t, <<2, earthRadius, Segments, fresnelCoeff10>>,
                     p.w * totalDistance)

\* p >= t, as JavaScript compares.
PercentAtLeast(p, t) ==
    CASE p.kind = "nan" -> FALSE
      [] p.kind = "inf" -> TRUE
      [] p.kind = "lit" -> p.value >= t
      [] p.kind = "ratio" -> ~PercentLess(p, t)

\* Mutant of MathMin: the later value is kept.
MathMinLatest(a, b) ==
    CASE a.kind = "nan" \/ b.kind = "nan" -> NaN
      [] b.kind = "inf" -> a
      [] OTHER -> b

\* Math.min(a, b) on two percentages of the same analysis.
MathMin(a, b) ==
    CASE a.kind = "nan" \/ b.kind = "nan" -> NaN
      [] a.kind = "inf" -> b
      [] b.kind = "inf" -> a
      [] OTHER -> IF LessSqrt(b.clr, <<>>, a.w, a.clr, <<>>, b.w) THEN b ELSE a

-----------------------------------------------------------------------------
\* ElevationService.analyzeLineOfSight

Undefined == "undefined"

\* The record pushed for an obstructed sample i.
ObstructionRecord(i) ==
    [distance       |-> Sample(i).distance,
     elevation      |-> ObstructionHeight(i),
     requiredHeight |-> RequiredHeight(i),
     obstruction    |-> Excess(i),
     lat            |-> Sample(i).lat,
     lon            |-> Sample(i).lon,
     type           |-> IF ObstructionHeight(i) > Sample(i).elevation + buildingOverTerrainM
                        THEN "building" ELSE "terrain"]

\* Mutant of FirstScanned: the loop starts at the first sample.
FirstScannedFromStart == 1 - 1

\* First index of the scan: the loop starts at i = 1.
FirstScanned == 1

\* Mutant of LastScanned: the loop runs while i < profile.length.
LastScannedToEnd == length - 1

\* Last index of the scan: the loop runs while i < profile.length - 1.
LastScanned == length - 2

\* Mutant of ScanUpTo: obstructions.unshift, the newest record first.
RECURSIVE ScanUpToNewestFirst(_)
ScanUpToNewestFirst(i) ==
    IF i < FirstScanned
    THEN [obstructions |-> <<>>, minClearance |-> Infinity]
    ELSE LET before == ScanUpToNewestFirst(i - 1)
         IN  [obstructions |->
                 IF IsObstructed(i)
                 THEN <<ObstructionRecord(i)>> \o before.obstructions
                 ELSE before.obstructions,
              minClearance |->
                 MathMin(before.minClearance, FresnelClearancePercent(i))]

\* obstructions and minClearance after the loop body has run for the samples
\* FirstScanned .. i.
RECURSIVE ScanUpTo(_)
ScanUpTo(i) ==
    IF i < FirstScanned
    THEN [obstructions |-> <<>>, minClearance |-> Infinity]
    ELSE LET before == ScanUpTo(i - 1)
         IN  [obstructions |->
                 IF IsObstructed(i)
                 THEN Append(before.obstructions, ObstructionRecord(i))
                 ELSE before.obstructions,
              minClearance |->
                 MathMin(before.minClearance, FresnelClearancePercent(i))]

\* Mutant of Quality: the 60 % test made before the 20 % test.
QualityMarginalFirst(hasLoS, fresnelClearance) ==
    IF ~hasLoS THEN "blocked"
    ELSE IF PercentLess(fresnelClearance, 60) THEN "marginal"
    ELSE IF PercentLess(fresnelClearance, 20) THEN "poor"
    ELSE IF PercentLess(fresnelClearance, 100) THEN "good"
    ELSE "excellent"

\* quality, from hasLoS and fresnelClearance
Quality(hasLoS, fresnelClearance) ==
    IF ~hasLoS THEN "blocked"
    ELSE IF PercentLess(fresnelClearance, 20) THEN "poor"
    ELSE IF PercentLess(fresnelClearance, 60) THEN "marginal"
    ELSE IF PercentLess(fresnelClearance, 100) THEN "good"
    ELSE "excellent"

\* hasLoS = obstructions.length === 0
HasLoS(obstructions) == Len(obstructions) = 0

\* Mutant of MinSamples: the early return taken for an empty profile only.
MinSamplesOne == 2 - 1

\* The early return is taken when profile.length < 2.
MinSamples == 2

\* The value analyzeLineOfSight returns for the current arguments.
analyzeLineOfSight ==
    IF length < MinSamples
    THEN [hasLoS |-> FALSE, obstructions |-> <<>>,
          fresnelClearance |-> Literal(0),
          quality |-> Undefined, totalDistance |-> Undefined]
    ELSE LET scan == ScanUpTo(LastScanned)
             hasLoS == HasLoS(scan.obstructions)
         IN  [hasLoS |-> hasLoS,
              obstructions |-> scan.obstructions,
              fresnelClearance |-> scan.minClearance,
              quality |-> Quality(hasLoS, scan.minClearance),
              totalDistance |-> totalDistance]

-----------------------------------------------------------------------------
\* Specification of the terrain analyzer: the arguments are drawn at the
\* start, the call is one step.

\* Building lists handed to the analysis: none, one building 20 m beside the
\* path at 1 km, that one with a second building at the first endpoint, and
\* two low buildings next to each other at 1 km, the higher one first.
BuildingLists ==
    { <<>>,
      <<[lat |-> 20, lon |-> 1000, height |-> 30]>>,
      <<[lat |-> 20, lon |-> 1000, height |-> 30],
        [lat |-> 0, lon |-> 0, height |-> 30]>>,
      <<[lat |-> 20, lon |-> 1000, height |-> 5],
        [lat |-> -10, lon |-> 1010, height |-> 3]>> }

ElevationLists == UNION { [1..n -> Elevations] : n \in 0..MaxSamples }

\* Terrain elevations of the profiles that are analysed with buildings: sea
\* level and the 500 m summit.  Profiles with the low hills of 10 m and 22 m
\* are analysed without buildings.
BuiltElevations == {0, 500}

BuildingListsFor(elevs) ==
    IF \A x \in DOMAIN elevs : elevs[x] \in BuiltElevations
    THEN BuildingLists
    ELSE {<<>>}

InitLoS ==
    /\ \E elevs \in ElevationLists, d \in Distances :
           /\ elevationProfile = MakeProfile(elevs, d)
           /\ buildings \in BuildingListsFor(elevs)
    /\ point1Height \in Heights1
    /\ point2Height \in Heights2
    /\ frequency \in Frequencies
    /\ losAnalysis = NoResult
    /\ params = NoResult
    /\ linkBudget = NoResult
    /\ maxRange = NoResult
    /\ rangeBudget = NoResult
    /\ NoRecCall
    /\ NoPathCall
    /\ NoFresnelCall
    /\ NoAirCall
    /\ NoLinkCall
    /\ AppLoaded

AnalyzeLineOfSight ==
    /\ losAnalysis = NoResult
    /\ losAnalysis' = analyzeLineOfSight
    /\ UNCHANGED <<elevationProfile, point1Height, point2Height, frequency,
                   buildings, rfVars, recVars, pathVars, fresnelVars, airVars, linkColor, appVars>>

NextLoS == AnalyzeLineOfSight

SpecLoS == InitLoS /\ [][NextLoS]_vars

-----------------------------------------------------------------------------
\* LoRaCalculator.
\*
\* Powers, gains, losses and margins are held in thousandths of a dB (mdB)
\* and distances in metres, as Literal values; a missing table entry or an
\* omitted parameter is UndefinedValue, and arithmetic on it gives NaN as in
\* JavaScript.  Math.log10 and Math.pow are computed in binary fixed point
\* (14-bit mantissa), accurate to about 0.01 dB over the ranges used here.

UndefinedValue == [kind |-> "undefined"]

IsNumber(x) == x.kind = "lit"

\* a + b and a - b on numbers (NaN when an operand is NaN or undefined)
Plus(a, b) == IF IsNumber(a) /\ IsNumber(b) THEN Literal(a.value + b.value) ELSE NaN
Minus(a, b) == IF IsNumber(a) /\ IsNumber(b) THEN Literal(a.value - b.value) ELSE NaN

\* a < b on numbers (false when an operand is NaN or undefined)
NumLess(a, b) == IsNumber(a) /\ IsNumber(b) /\ a.value < b.value

\* dB to mdB
DB(x) == Literal(x * 1000)

\* Mutant of sensitivityTable: the entries of SF9 and SF10 at 250 kHz exchanged.
sensitivityTableExchanged ==
    [b \in {125, 250, 500} |->
        CASE b = 125 -> (7 :> -123000 @@ 8 :> -126000 @@ 9 :> -129000
                          @@ 10 :> -132000 @@ 11 :> -134500 @@ 12 :> -137000)
          [] b = 250 -> (7 :> -120000 @@ 8 :> -123000 @@ 9 :> -128000
                          @@ 10 :> -125000 @@ 11 :> -131000 @@ 12 :> -133000)
          [] b = 500 -> (7 :> -117000 @@ 8 :> -120000 @@ 9 :> -122000
                          @@ 10 :> -125000 @@ 11 :> -128000 @@ 12 :> -130000)]

\* this.sensitivityTable (mdB)
sensitivityTable ==
    [b \in {125, 250, 500} |->
        CASE b = 125 -> (7 :> -123000 @@ 8 :> -126000 @@ 9 :> -129000
                          @@ 10 :> -132000 @@ 11 :> -134500 @@ 12 :> -137000)
          [] b = 250 -> (7 :> -120000 @@ 8 :> -123000 @@ 9 :> -125000
                          @@ 10 :> -128000 @@ 11 :> -131000 @@ 12 :> -133000)
          [] b = 500 -> (7 :> -117000 @@ 8 :> -120000 @@ 9 :> -122000
                          @@ 10 :> -125000 @@ 11 :> -128000 @@ 12 :> -130000)]

\* An outcome of a call: a returned value, or a thrown error.
Returned(v) == [threw |-> FALSE, value |-> v]
Thrown(e) == [threw |-> TRUE, error |-> e]

\* getSensitivity(sf, bw): this.sensitivityTable[bw][sf].  A bw that is no
\* key makes the first lookup undefined and the second one throw a
\* TypeError; an sf that is no key of the row gives undefined.
getSensitivity(sf, bw) ==
    IF bw \notin DOMAIN sensitivityTable
    THEN Thrown("TypeError")
    ELSE IF sf \notin DOMAIN sensitivityTable[bw]
    THEN Returned(UndefinedValue)
    ELSE Returned(Literal(sensitivityTable[bw][sf]))

RECURSIVE Pow2(_)
Pow2(n) == IF n = 0 THEN 1 ELSE 2 * Pow2(n - 1)

\* Mutant of MathRound: truncation, Math.floor.
MathFloor(num, den) == num \div den

\* Math.round of the rational num / den (den > 0): floor(x + 0.5)
MathRound(num, den) == (2 * num + den) \div (2 * den)

\* Mutant of calculateDataRate: the coding rate taken as cr / 4.
calculateDataRateInverted(sf, bw, cr) ==
    MathRound(bw * 1000 * sf * cr, Pow2(sf) * 4)

\* calculateDataRate(sf, bw, cr): round(sf * (bw * 1000 / 2^sf) * (4 / cr)), bps
calculateDataRate(sf, bw, cr) ==
    MathRound(bw * 1000 * sf * 4, Pow2(sf) * cr)

\* floor(log2(n)) for n >= 1
RECURSIVE FloorLog2(_)
FloorLog2(n) == IF n < 2 THEN 0 ELSE 1 + FloorLog2(n \div 2)

\* The first k fraction bits of log2 of the mantissa m (in [1, 2), scaled by
\* 2^14), by repeated squaring.
RECURSIVE Log2Bits(_, _)
Log2Bits(m, k) ==
    IF k = 0 THEN 0
    ELSE LET sq == (m * m) \div 16384
         IN  IF sq >= 32768
             THEN Pow2(k - 1) + Log2Bits(sq \div 2, k - 1)
             ELSE Log2Bits(sq, k - 1)

\* 20 * Math.log10(n) in mdB for an integer n >= 1:
\* 20000 * log10(2) = 6020.6 times log2(n).
Log10x20(n) ==
    LET e == FloorLog2(n)
        m == IF e <= 14 THEN n * Pow2(14 - e) ELSE n \div Pow2(e - 14)
    IN  (e * 602060) \div 100 + (60206 * Log2Bits(m, 12)) \div 40960

\* 2^(2^-i) scaled by 2^14, i = 1 .. 14
RootsOfTwo == <<23170, 19484, 17867, 17109, 16743, 16562, 16473,
                16428, 16406, 16395, 16390, 16387, 16385, 16385>>

\* 2^(fr / 2^14) scaled by 2^14: the product of the roots of two selected by
\* the bits i .. 14 of fr, times m.
RECURSIVE Exp2Frac(_, _, _)
Exp2Frac(fr, i, m) ==
    IF i > 14 THEN m
    ELSE Exp2Frac(fr, i + 1,
                  IF (fr \div Pow2(14 - i)) % 2 = 1
                  THEN (m * RootsOfTwo[i]) \div 16384
                  ELSE m)

\* Math.pow(10, e / 20) for e in mdB, rounded to an integer.
Pow10Div20(e) ==
    LET k == (e * 1000) \div 6020600
        rem == e * 1000 - k * 6020600
        fr == ((rem \div 100) * 16384) \div 60206
        m == Exp2Frac(fr, 1, 16384)
    IN  IF k >= 14 THEN m * Pow2(k - 14)
        ELSE IF k < -2 THEN 0
        ELSE (m + Pow2(13 - k)) \div Pow2(14 - k)

\* Mutant of calculateFSPL: the early return taken for distanceKm < 0 only.
calculateFSPLNegativeOnly(distance, frequencyMHz) ==
    IF ~IsNumber(distance) THEN NaN
    ELSE IF distance.value < 0 THEN Literal(0)
    ELSE Literal((Log10x20(distance.value) - 60000)
                 + Log10x20(frequencyMHz) + 32450)

\* calculateFSPL(distanceKm, frequencyMHz), the distance given in metres:
\* 0 for a distance <= 0, else 20*log10(d) + 20*log10(f) + 32.45.
calculateFSPL(distance, frequencyMHz) ==
    IF ~IsNumber(distance) THEN NaN
    ELSE IF distance.value <= 0 THEN Literal(0)
    ELSE Literal((Log10x20(distance.value) - 60000)
                 + Log10x20(frequencyMHz) + 32450)

\* miscLosses = 2 dB in calculateLinkBudget
miscLosses == DB(2)

\* The default of the fadeMargin parameter, dB
defaultFadeMargin == 10

\* Mutant of FadeMarginOf: no default for an omitted fadeMargin.
FadeMarginNoDefault(p) == p.fadeMargin

\* const { ..., fadeMargin = 10 } = params
FadeMarginOf(p) ==
    IF p.fadeMargin = UndefinedValue THEN DB(defaultFadeMargin) ELSE p.fadeMargin

\* status, from linkMargin and requiredMargin = fadeMargin
Status(linkMargin, requiredMargin) ==
    IF NumLess(linkMargin, requiredMargin) THEN "poor"
    ELSE IF NumLess(linkMargin, Plus(requiredMargin, DB(10))) THEN "marginal"
    ELSE IF NumLess(linkMargin, Plus(requiredMargin, DB(20))) THEN "good"
    ELSE "excellent"

\* calculateLinkBudget(p)
calculateLinkBudget(p) ==
    LET fadeMargin == FadeMarginOf(p)
        sens == getSensitivity(p.sf, p.bw)
    IN  IF sens.threw THEN sens
        ELSE LET sensitivity == sens.value
                 pathLoss == calculateFSPL(p.distance, p.frequency)
                 rxPower == Minus(Minus(Plus(Plus(p.txPower, p.txGain), p.rxGain),
                                        pathLoss), miscLosses)
                 linkMargin == Minus(rxPower, sensitivity)
             IN  Returned(
                   [sensitivity |-> sensitivity,
                    pathLoss    |-> pathLoss,
                    rxPower     |-> rxPower,
                    linkMargin  |-> linkMargin,
                    linkBudget  |-> Minus(linkMargin, fadeMargin),
                    dataRate    |-> calculateDataRate(p.sf, p.bw, p.cr),
                    status      |-> Status(linkMargin, fadeMargin),
                    details     |-> [txPower |-> p.txPower, txGain |-> p.txGain,
                                     rxGain |-> p.rxGain, miscLosses |-> miscLosses,
                                     fadeMargin |-> fadeMargin,
                                     requiredMargin |-> fadeMargin]])

\* Mutant of rangeMiscLosses: the cable loss left out of the range budget.
rangeMiscLossesNone == DB(0)

\* miscLosses = 2 dB in calculateMaxRange
rangeMiscLosses == DB(2)

\* calculateMaxRange(p), in metres
calculateMaxRange(p) ==
    LET fadeMargin == FadeMarginOf(p)
        sens == getSensitivity(p.sf, p.bw)
    IN  IF sens.threw THEN sens
        ELSE LET pathLossBudget ==
                     Minus(Minus(Minus(Plus(Plus(p.txPower, p.txGain), p.rxGain),
                                       sens.value), rangeMiscLosses), fadeMargin)
             IN  Returned(
                   IF IsNumber(pathLossBudget)
                   THEN Literal(Pow10Div20(pathLossBudget.value
                                           - Log10x20(p.frequency) - 32450 + 60000))
                   ELSE NaN)

-----------------------------------------------------------------------------
\* LoRaCalculator.getRecommendedSettings

\* a >= b on numbers (false when an operand is NaN or undefined)
NumAtLeast(a, b) == IsNumber(a) /\ IsNumber(b) /\ a.value >= b.value

\* sfOptions, in iteration order
sfOptions == <<7, 8, 9, 10, 11, 12>>

\* Mutant of bwOptions: the widest bandwidth is not tried.
bwOptionsNarrow == <<125, 250>>

\* bwOptions, in iteration order
bwOptions == <<125, 250, 500>>

\* The k-th (sf, bw) pair of the nested loops, k = 1 .. 18: sf outer, bw inner.
Combination(k) ==
    [sf |-> sfOptions[((k - 1) \div Len(bwOptions)) + 1],
     bw |-> bwOptions[((k - 1) % Len(bwOptions)) + 1]]

\* The parameters handed to calculateLinkBudget for one pair.
RecommendationParams(distanceKm, frequencyMHz, sf, bw) ==
    [txPower |-> DB(14), txGain |-> DB(2), rxGain |-> DB(2),
     frequency |-> frequencyMHz, distance |-> distanceKm,
     sf |-> sf, bw |-> bw, cr |-> 5, fadeMargin |-> DB(10)]

\* score = dataRate * (linkMargin / 10) of a qualifying result (linkMargin
\* >= 10 dB, so positive): the product dataRate * linkMargin[mdB], that is
\* the score in units of 1/10000, as an arbitrary-precision natural.
Score(dataRate, linkMargin) ==
    BigTrim(BigMul(BigOf(dataRate), BigOf(linkMargin.value)))

\* recommendations after the loop body has run for the pairs 1 .. k.
RECURSIVE RecommendationsUpTo(_, _, _)
RecommendationsUpTo(distanceKm, frequencyMHz, k) ==
    IF k = 0 THEN <<>>
    ELSE LET before == RecommendationsUpTo(distanceKm, frequencyMHz, k - 1)
             c == Combination(k)
             result == calculateLinkBudget(
                           RecommendationParams(distanceKm, frequencyMHz, c.sf, c.bw)).value
         IN  IF NumAtLeast(result.linkMargin, DB(10))
             THEN Append(before,
                         [sf |-> c.sf, bw |-> c.bw,
                          dataRate |-> result.dataRate,
                          linkMargin |-> result.linkMargin,
                          score |-> Score(result.dataRate, result.linkMargin)])
             ELSE before

\* The comparator (a, b) => b.score - a.score is positive: b goes before a.
ComesBefore(b, a) == BigLess(a.score, b.score)

\* e inserted into a sorted array behind every element it does not come
\* before (Array.prototype.sort is stable).
RECURSIVE InsertSorted(_, _)
InsertSorted(sorted, e) ==
    IF sorted = <<>> THEN <<e>>
    ELSE IF ComesBefore(e, Head(sorted)) THEN <<e>> \o sorted
    ELSE <<Head(sorted)>> \o InsertSorted(Tail(sorted), e)

\* Mutant of SortByScore: ascending, (a, b) => a.score - b.score.
RECURSIVE InsertAscending(_, _)
InsertAscending(sorted, e) ==
    IF sorted = <<>> THEN <<e>>
    ELSE IF ComesBefore(Head(sorted), e) THEN <<e>> \o sorted
    ELSE <<Head(sorted)>> \o InsertAscending(Tail(sorted), e)

RECURSIVE SortByScoreAscending(_)
SortByScoreAscending(list) ==
    IF list = <<>> THEN <<>>
    ELSE InsertAscending(SortByScoreAscending(SubSeq(list, 1, Len(list) - 1)),
                         list[Len(list)])

\* recommendations.sort((a, b) => b.score - a.score)
RECURSIVE SortByScore(_)
SortByScore(list) ==
    IF list = <<>> THEN <<>>
    ELSE InsertSorted(SortByScore(SubSeq(list, 1, Len(list) - 1)), list[Len(list)])

\* array.slice(0, n)
Slice(array, n) == SubSeq(array, 1, IF Len(array) < n THEN Len(array) ELSE n)

\* getRecommendedSettings(distanceKm, frequency), the distance in metres
getRecommendedSettings(distanceKm, frequencyMHz) ==
    Slice(SortByScore(RecommendationsUpTo(distanceKm, frequencyMHz,
                                          Len(sfOptions) * Len(bwOptions))), 3)

-----------------------------------------------------------------------------
\* Specification of the recommendation: the distance and the frequency are
\* drawn at the start, the call is one step.

\* Number of 10 km steps of the distances tried.
MaxRecSteps == 50

\* Distances (m): 0 and up to 500 km, beyond the reach of every setting.
RecDistances == { k * 10000 : k \in 0..MaxRecSteps }

\* analyzeLineOfSight is not called.
NoLoSCall ==
    /\ elevationProfile = MakeProfile(<<>>, 0)
    /\ point1Height = 10
    /\ point2Height = 10
    /\ frequency = 868
    /\ buildings = <<>>
    /\ losAnalysis = NoResult

InitRec ==
    /\ NoLoSCall
    /\ params = NoResult
    /\ linkBudget = NoResult
    /\ maxRange = NoResult
    /\ rangeBudget = NoResult
    /\ \E d \in RecDistances, f \in Frequencies :
           recInput = [distanceKm |-> Literal(d), frequency |-> f]
    /\ recommendations = NoResult
    /\ NoPathCall
    /\ NoFresnelCall
    /\ NoAirCall
    /\ NoLinkCall
    /\ AppLoaded

GetRecommendedSettings ==
    /\ recommendations = NoResult
    /\ recommendations' = Returned(getRecommendedSettings(recInput.distanceKm,
                                                          recInput.frequency))
    /\ UNCHANGED <<losVars, rfVars, recInput, pathVars, fresnelVars, airVars, linkColor, appVars>>

NextRec == GetRecommendedSettings

SpecRec == InitRec /\ [][NextRec]_vars

-----------------------------------------------------------------------------
\* Specification of the profile sampling: the two points, the sample count
\* and what the lookups return are drawn at the start, the call is one step.

\* Largest sample count handed to getElevationProfile.
MaxPathSamples == 5

\* Pairs of points of the local grid (m) with the distance calculateDistance
\* finds between them (m): a pair 2 km apart along the lon axis, a pair
\* 500 m apart on a slant, the same pair reversed, and twice the same point.
PathEnds ==
    { [point1 |-> [lat |-> 0, lon |-> 0], point2 |-> [lat |-> 0, lon |-> 2000],
       distance |-> 2000],
      [point1 |-> [lat |-> 30, lon |-> -40], point2 |-> [lat |-> 330, lon |-> 360],
       distance |-> 500],
      [point1 |-> [lat |-> 330, lon |-> 360], point2 |-> [lat |-> 30, lon |-> -40],
       distance |-> 500],
      [point1 |-> [lat |-> 30, lon |-> -40], point2 |-> [lat |-> 30, lon |-> -40],
       distance |-> 0] }

\* Elevations the lookup returns (m).
LookupElevations == {0, 7}

InitPath ==
    /\ NoLoSCall
    /\ params = NoResult
    /\ linkBudget = NoResult
    /\ maxRange = NoResult
    /\ rangeBudget = NoResult
    /\ NoRecCall
    /\ NoFresnelCall
    /\ NoAirCall
    /\ NoLinkCall
    /\ AppLoaded
    /\ \E ends \in PathEnds, n \in 0..MaxPathSamples :
       \E elevs \in [1..(n + 1) -> LookupElevations] :
           pathInput = [point1 |-> ends.point1, point2 |-> ends.point2,
                        numSamples |-> n, elevations |-> elevs,
                        distance |-> ends.distance]
    /\ pathProfile = NoResult

GetElevationProfile ==
    /\ pathProfile = NoResult
    /\ pathProfile' = getElevationProfile(pathInput.point1, pathInput.point2,
                                          pathInput.numSamples, pathInput.elevations,
                                          pathInput.distance)
    /\ UNCHANGED <<losVars, rfVars, recVars, pathInput, fresnelVars, airVars, linkColor, appVars>>

NextPath == GetElevationProfile

SpecPath == InitPath /\ [][NextPath]_vars

-----------------------------------------------------------------------------
\* Specification of the calculator: the parameters are drawn at the start,
\* each call is one step.

\* Spreading factors: the table's 7 .. 12 and one that is no key.
SpreadingFactors == 7..13

\* Bandwidths (kHz): the table's keys and one that is no key.
Bandwidths == {125, 250, 500, 62}

CodingRates == 5..8

\* Transmit powers (dBm) and antenna gains (dBi).
TxPowers == {14, 20}
Gains == {2}

\* Fade margins (dB); UndefinedValue is a call that omits the parameter.
FadeMargins == {UndefinedValue, DB(5), DB(10), DB(15)}

\* Link distances (m); a negative one is a caller's error.
LinkDistances == {-5000, 0, 1000, 10000, 30000, 100000}

InitRF ==
    /\ NoLoSCall
    /\ \E tx \in TxPowers, g1 \in Gains, g2 \in Gains, f \in Frequencies,
          d \in LinkDistances, s \in SpreadingFactors, b \in Bandwidths,
          c \in CodingRates, m \in FadeMargins :
           params = [txPower |-> DB(tx), txGain |-> DB(g1), rxGain |-> DB(g2),
                     frequency |-> f, distance |-> Literal(d),
                     sf |-> s, bw |-> b, cr |-> c, fadeMargin |-> m]
    /\ linkBudget = NoResult
    /\ maxRange = NoResult
    /\ rangeBudget = NoResult
    /\ NoRecCall
    /\ NoPathCall
    /\ NoFresnelCall
    /\ NoAirCall
    /\ NoLinkCall
    /\ AppLoaded

CalculateLinkBudget ==
    /\ linkBudget = NoResult
    /\ linkBudget' = calculateLinkBudget(params)
    /\ UNCHANGED <<losVars, params, maxRange, rangeBudget, recVars, pathVars,
                   fresnelVars, airVars, linkColor, appVars>>

CalculateMaxRange ==
    /\ maxRange = NoResult
    /\ maxRange' = calculateMaxRange(params)
    /\ UNCHANGED <<losVars, params, linkBudget, rangeBudget, recVars, pathVars,
                   fresnelVars, airVars, linkColor, appVars>>

\* calculateLinkBudget({...params, distance: maxRange})
CalculateLinkBudgetAtMaxRange ==
    /\ maxRange # NoResult
    /\ ~maxRange.threw
    /\ rangeBudget = NoResult
    /\ rangeBudget' = calculateLinkBudget([params EXCEPT !.distance = maxRange.value])
    /\ UNCHANGED <<losVars, params, linkBudget, maxRange, recVars, pathVars,
                   fresnelVars, airVars, linkColor, appVars>>

NextRF ==
    \/ CalculateLinkBudget
    \/ CalculateMaxRange
    \/ CalculateLinkBudgetAtMaxRange

SpecRF == InitRF /\ [][NextRF]_vars

-----------------------------------------------------------------------------
\* Specification of the Fresnel radius functions: a split d1 + d2 of a path
\* and a frequency are drawn at the start; one step calls
\* calculateFresnelRadius on the split and calculateMaxFresnelRadius on the
\* total distance.  Distances are numerators over 4 (quarters of a km).

\* Longest path (km).
MaxFresnelKm == 10

\* The splits: d1 + d2 = D for a whole number D of km, d1 and d2 >= 0
\* quarters of a km.
FresnelSplits ==
    UNION { { [d1 |-> a, d2 |-> 4 * k - a] : a \in 0..(4 * k) } : k \in 0..MaxFresnelKm }

InitFresnel ==
    /\ NoLoSCall
    /\ params = NoResult
    /\ linkBudget = NoResult
    /\ maxRange = NoResult
    /\ rangeBudget = NoResult
    /\ NoRecCall
    /\ NoPathCall
    /\ NoAirCall
    /\ NoLinkCall
    /\ AppLoaded
    /\ \E split \in FresnelSplits, f \in Frequencies :
           fresnelInput = [d1 |-> split.d1, d2 |-> split.d2, frequencyMHz |-> f]
    /\ fresnelRadii = NoResult

CalculateFresnelRadii ==
    /\ fresnelRadii = NoResult
    /\ fresnelRadii' =
           [local |-> calculateFresnelRadius(fresnelInput.d1, fresnelInput.d2,
                                             fresnelInput.frequencyMHz),
            max   |-> calculateMaxFresnelRadius(fresnelInput.d1 + fresnelInput.d2,
                                                fresnelInput.frequencyMHz)]
    /\ UNCHANGED <<losVars, rfVars, recVars, pathVars, fresnelInput, airVars, linkColor,
                   appVars>>

NextFresnel == CalculateFresnelRadii

SpecFresnel == InitFresnel /\ [][NextFresnel]_vars

-----------------------------------------------------------------------------
\* calculateTimeOnAir.  The result is an exact rational number of
\* milliseconds, numerator and denominator held as arbitrary-precision
\* naturals.

\* Math.ceil of the rational num / den (den > 0)
MathCeil(num, den) == -((-num) \div den)

\* Mutant of preambleQuarters: the 4.25 symbols of the sync word left out.
preambleQuartersNoSync == 4 * 8

\* (8 + 4.25) preamble symbols, in quarters of a symbol
preambleQuarters == 49

\* payloadSymbolNb = 8 + Math.max(Math.ceil((8 * payloadBytes - 4 * sf + 28) / (4 * sf)) * cr, 0)
payloadSymbolNb(payloadBytes, sf, cr) ==
    8 + Max(MathCeil(8 * payloadBytes - 4 * sf + 28, 4 * sf) * cr, 0)

\* calculateTimeOnAir(payloadBytes, sf, bw, cr):
\*   symbolDuration = 2^sf / (bw * 1000)
\*   (preambleDuration + payloadDuration) * 1000
\* as the quotient num / den with the symbol count in quarters.
calculateTimeOnAir(payloadBytes, sf, bw, cr) ==
    LET bandwidth == bw * 1000
        quarters == preambleQuarters + 4 * payloadSymbolNb(payloadBytes, sf, cr)
    IN  [num |-> BigTrim(BigProd(<<quarters, Pow2(sf), 1000>>)),
         den |-> BigTrim(BigProd(<<4, bandwidth>>))]

\* Specification of calculateTimeOnAir: the arguments are drawn at the start,
\* the call is one step.

\* Payload sizes (bytes): none, one, a short and the two longest LoRaWAN frames.
PayloadSizes == {0, 1, 10, 51, 255}

\* Spreading factors and bandwidths (kHz) of the sensitivity table.
AirSpreadingFactors == 7..12
AirBandwidths == {125, 250, 500}

InitAir ==
    /\ NoLoSCall
    /\ params = NoResult
    /\ linkBudget = NoResult
    /\ maxRange = NoResult
    /\ rangeBudget = NoResult
    /\ NoRecCall
    /\ NoPathCall
    /\ NoFresnelCall
    /\ NoLinkCall
    /\ AppLoaded
    /\ \E pl \in PayloadSizes, s \in AirSpreadingFactors, b \in AirBandwidths,
          c \in CodingRates :
           airInput = [payloadBytes |-> pl, sf |-> s, bw |-> b, cr |-> c]
    /\ timeOnAir = NoResult

CalculateTimeOnAir ==
    /\ timeOnAir = NoResult
    /\ timeOnAir' = Returned(calculateTimeOnAir(airInput.payloadBytes, airInput.sf,
                                                airInput.bw, airInput.cr))
    /\ UNCHANGED <<losVars, rfVars, recVars, pathVars, fresnelVars, airInput,
                   linkColor, appVars>>

NextAir == CalculateTimeOnAir

SpecAir == InitAir /\ [][NextAir]_vars

-----------------------------------------------------------------------------
\* The analysis of one link by the application (src/app.js, the body of the
\* loop of analyzeLineOfSight): the profile of the link is analysed with both
\* antennas at 10 m, the link budget is computed for the length of the
\* profile, and the polyline of the link gets the colour of getLinkColor.

\* getLinkColor(hasLoS, linkStatus)
getLinkColor(hasLoS, linkStatus) ==
    IF ~hasLoS THEN "#ff4466"
    ELSE CASE linkStatus \in {"excellent", "good"} -> "#00ff88"
           [] linkStatus = "marginal" -> "#ffaa00"
           [] OTHER -> "#ff4466"

\* Transmit powers (dBm) and spreading factors set in the panel.
LinkTxPowers == {2, 14}
LinkSpreadingFactors == {7, 12}

\* Profiles of the links: at least 2 samples.
LinkElevationLists == { elevs \in ElevationLists : Len(elevs) >= 2 }

InitLink ==
    /\ \E elevs \in LinkElevationLists, d \in Distances :
           /\ elevationProfile = MakeProfile(elevs, d)
           /\ buildings \in BuildingListsFor(elevs)
    /\ point1Height = 10
    /\ point2Height = 10
    /\ frequency \in Frequencies
    /\ losAnalysis = NoResult
    /\ \E tx \in LinkTxPowers, s \in LinkSpreadingFactors :
           params = [txPower |-> DB(tx), txGain |-> DB(2), rxGain |-> DB(2),
                     frequency |-> frequency, distance |-> UndefinedValue,
                     sf |-> s, bw |-> 125, cr |-> 5, fadeMargin |-> UndefinedValue]
    /\ linkBudget = NoResult
    /\ maxRange = NoResult
    /\ rangeBudget = NoResult
    /\ NoRecCall
    /\ NoPathCall
    /\ NoFresnelCall
    /\ NoAirCall
    /\ linkColor = NoResult
    /\ AppLoaded

\* One iteration of the loop: elevationService.analyzeLineOfSight,
\* loraCalc.calculateLinkBudget({...loraParams, distance, ...}), getLinkColor.
AnalyzeLink ==
    /\ linkColor = NoResult
    /\ losAnalysis' = analyzeLineOfSight
    /\ linkBudget' = calculateLinkBudget(
                        [params EXCEPT !.distance = Literal(totalDistance * 1000)])
    /\ linkColor' = Returned(getLinkColor(losAnalysis'.hasLoS,
                                          linkBudget'.value.status))
    /\ UNCHANGED <<elevationProfile, point1Height, point2Height, frequency,
                   buildings, params, maxRange, rangeBudget, recVars, pathVars,
                   fresnelVars, airVars, appVars>>

NextLink == AnalyzeLink

SpecLink == InitLink /\ [][NextLink]_vars

-----------------------------------------------------------------------------
\* The application (src/app.js): the handlers of the buttons, the map, the
\* markers and the parameter panel.  A handler runs to its end or to its next
\* await in one step; what it awaits (an elevation, an elevation profile, a
\* building list) resolves in a later step, in any order.
\*
\* A point object is identified by its marker, markers are numbered in the
\* order of their creation, and pointIndexOf[m] is the pointIndex that the
\* popup button, the double-click handler and the drag handler of marker m
\* hold.  appState.polylines is the number of polylines; an entry of an
\* analysis holds the two point objects of its link (from, to), the path whose
\* elevation profile was fetched, the frequency of the link budget and
\* whether a building list was fetched, in place of the computed values.

\* addPoint calls made in a run of the application.
MaxPoints == 3

\* Analyses started in a run of the application.
MaxAnalyses == 3

\* updatePointPosition calls in flight at a time.
MaxMoves == 1

\* Places on the map that are clicked and dragged to.
Places == { [lat |-> 45, lon |-> 9], [lat |-> 46, lon |-> 9] }

\* Frequencies of the panel's radio buttons (MHz).
PanelFrequencies == {433, 868}

\* What elevationService.getElevation resolves to (m).
ElevationAt(lat, lon) == IF lat = 45 THEN 120 ELSE 300

\* String.fromCharCode(65 + i)
Letter(i) == <<"A", "B", "C", "D", "E", "F">>[i + 1]

\* s.splice(k - 1, 1) for an index within the array
RemoveAt(s, k) == SubSeq(s, 1, k - 1) \o SubSeq(s, k + 1, Len(s))

\* drawLines(): one polyline for each pair of consecutive points
drawLines(st) ==
    [st EXCEPT !.polylines = IF Len(st.points) >= 2 THEN Len(st.points) - 1 ELSE 0]

\* updateCoverageLayer(): the circles are removed and, if the layer is enabled,
\* one circle is drawn around every point
updateCoverageLayer(st) ==
    [st EXCEPT !.coverageCircles =
        IF ~st.coverageEnabled \/ Len(st.points) = 0
        THEN <<>>
        ELSE [i \in 1..Len(st.points) |->
                 [lat |-> st.points[i].lat, lon |-> st.points[i].lon]]]

\* The re-labelling loop of removePoint: A, B, C, ... in list order.
Relabelled(points) ==
    [i \in 1..Len(points) |-> [points[i] EXCEPT !.label = Letter(i - 1)]]

\* removePoint(index).  appState.map.removeLayer(appState.markers[index])
\* throws a TypeError for an index that has no marker, before anything is
\* changed.
removePoint(st, index) ==
    IF index >= Len(st.markers)
    THEN st
    ELSE drawLines([st EXCEPT !.points = Relabelled(RemoveAt(st.points, index + 1)),
                              !.markers = RemoveAt(st.markers, index + 1)])

\* The path between two point objects, as passed to getElevationProfile.
PathOf(p1, p2) ==
    [point1 |-> [lat |-> p1.lat, lon |-> p1.lon],
     point2 |-> [lat |-> p2.lat, lon |-> p2.lon]]

\* Iteration i of the loop of analyzeLineOfSight up to its first await:
\* p1 = points[i], p2 = points[i + 1], getElevationProfile is called.
Iteration(run, i, analyses, st) ==
    [run |-> run, i |-> i, analyses |-> analyses,
     p1 |-> st.points[i + 1].marker, p2 |-> st.points[i + 2].marker,
     path |-> PathOf(st.points[i + 1], st.points[i + 2]),
     awaiting |-> "elevation"]

\* analyzeLineOfSight() is called if called holds, with the application state
\* st: it returns at once for fewer than 2 points, else it shows
\* 'Analyzing...' and runs to the first await.
Analyze(called, st) ==
    IF called /\ Len(st.points) >= 2
    THEN /\ analysisCalls < MaxAnalyses
         /\ analysisCalls' = analysisCalls + 1
         /\ analysisRuns' = analysisRuns \cup {Iteration(analysisCalls + 1, 0, <<>>, st)}
         /\ linkAnalysisDiv' = [shows |-> "analyzing"]
    ELSE UNCHANGED <<analysisCalls, analysisRuns, linkAnalysisDiv>>

InitApp ==
    /\ NoLoSCall
    /\ params = NoResult
    /\ linkBudget = NoResult
    /\ maxRange = NoResult
    /\ rangeBudget = NoResult
    /\ NoRecCall
    /\ NoPathCall
    /\ NoFresnelCall
    /\ NoAirCall
    /\ NoLinkCall
    /\ AppLoaded

\* Click on the 'Add Point' button.
ClickAddPoint ==
    /\ ~appState.addingPoint
    /\ appState' = [appState EXCEPT !.addingPoint = TRUE]
    /\ UNCHANGED <<calcVars, loraParams, linkAnalysisDiv, pointIndexOf, addPointCalls,
                   updatePositionCalls, analysisRuns, analysisCalls>>

\* onMapClick: addPoint(lat, lon) runs to its await with pointIndex and label
\* taken from the current number of points.
OnMapClick(place) ==
    /\ appState.addingPoint
    /\ Len(pointIndexOf) + Len(addPointCalls) < MaxPoints
    /\ addPointCalls' = Append(addPointCalls,
                               [pointIndex |-> Len(appState.points),
                                label |-> Letter(Len(appState.points)),
                                lat |-> place.lat, lon |-> place.lon])
    /\ appState' = [appState EXCEPT !.addingPoint = FALSE]
    /\ UNCHANGED <<calcVars, loraParams, linkAnalysisDiv, pointIndexOf,
                   updatePositionCalls, analysisRuns, analysisCalls>>

\* The elevation of the k-th waiting addPoint call has arrived: the marker is
\* created with handlers holding pointIndex, the point and the marker are
\* pushed, the lines and the coverage layer are redrawn.
AddPointResolved(k) ==
    LET call == addPointCalls[k]
        marker == Len(pointIndexOf) + 1
        point == [lat |-> call.lat, lon |-> call.lon,
                  elevation |-> ElevationAt(call.lat, call.lon),
                  label |-> call.label, marker |-> marker]
        pushed == [appState EXCEPT !.points = Append(@, point),
                                   !.markers = Append(@, marker)]
        drawn == IF Len(pushed.points) >= 2 THEN drawLines(pushed) ELSE pushed
    IN  /\ pointIndexOf' = Append(pointIndexOf, call.pointIndex)
        /\ appState' = IF drawn.coverageEnabled THEN updateCoverageLayer(drawn) ELSE drawn
        /\ addPointCalls' = RemoveAt(addPointCalls, k)
        /\ UNCHANGED <<calcVars, loraParams, linkAnalysisDiv, updatePositionCalls,
                       analysisRuns, analysisCalls>>

\* The markers on the map.
MarkersOnMap == { appState.markers[i] : i \in 1..Len(appState.markers) }

\* The delete button of the popup of marker m, or a confirmed double-click on
\* it: removePoint(pointIndex).
MarkerDelete(m) ==
    /\ m \in MarkersOnMap
    /\ appState' = removePoint(appState, pointIndexOf[m])
    /\ UNCHANGED <<calcVars, loraParams, linkAnalysisDiv, pointIndexOf, addPointCalls,
                   updatePositionCalls, analysisRuns, analysisCalls>>

\* The 'Remove' button of row index of the points table: removePoint(index).
TableRemove(index) ==
    /\ index < Len(appState.points)
    /\ appState' = removePoint(appState, index)
    /\ UNCHANGED <<calcVars, loraParams, linkAnalysisDiv, pointIndexOf, addPointCalls,
                   updatePositionCalls, analysisRuns, analysisCalls>>

\* dragend of marker m, dropped at place: updatePointPosition(pointIndex, lat,
\* lon) runs to its await.
MarkerDragEnd(m, place) ==
    /\ m \in MarkersOnMap
    /\ Len(updatePositionCalls) < MaxMoves
    /\ updatePositionCalls' = Append(updatePositionCalls,
                                     [index |-> pointIndexOf[m], marker |-> m,
                                      lat |-> place.lat, lon |-> place.lon])
    /\ UNCHANGED <<calcVars, appState, loraParams, linkAnalysisDiv, pointIndexOf,
                   addPointCalls, analysisRuns, analysisCalls>>

\* The elevation of the k-th waiting updatePointPosition call has arrived:
\* appState.points[index] is written (a TypeError if there is no such point)
\* and the lines are redrawn.
UpdatePositionResolved(k) ==
    LET call == updatePositionCalls[k]
    IN  /\ updatePositionCalls' = RemoveAt(updatePositionCalls, k)
        /\ appState' =
              IF call.index >= Len(appState.points)
              THEN appState
              ELSE drawLines([appState EXCEPT
                       !.points[call.index + 1].lat = call.lat,
                       !.points[call.index + 1].lon = call.lon,
                       !.points[call.index + 1].elevation =
                           ElevationAt(call.lat, call.lon)])
        /\ UNCHANGED <<calcVars, loraParams, linkAnalysisDiv, pointIndexOf,
                       addPointCalls, analysisRuns, analysisCalls>>

\* clearAllPoints()
ClearAllPoints ==
    /\ appState' = [appState EXCEPT !.markers = <<>>, !.polylines = 0,
                                    !.coverageCircles = <<>>, !.points = <<>>,
                                    !.currentAnalysis = Null]
    /\ linkAnalysisDiv' = [shows |-> "placeholder"]
    /\ UNCHANGED <<calcVars, loraParams, pointIndexOf, addPointCalls,
                   updatePositionCalls, analysisRuns, analysisCalls>>

\* toggleCoverageLayer()
ToggleCoverageLayer ==
    /\ appState' =
          LET toggled == [appState EXCEPT !.coverageEnabled = ~@]
          IN  IF toggled.coverageEnabled
              THEN updateCoverageLayer(toggled)
              ELSE [toggled EXCEPT !.coverageCircles = <<>>]
    /\ UNCHANGED <<calcVars, loraParams, linkAnalysisDiv, pointIndexOf, addPointCalls,
                   updatePositionCalls, analysisRuns, analysisCalls>>

\* toggleBuildingsLayer(): the flag is flipped and, if there is a current
\* analysis, analyzeLineOfSight() is called.
ToggleBuildingsLayer ==
    /\ appState' = [appState EXCEPT !.buildingsEnabled = ~@]
    /\ Analyze(appState.currentAnalysis.set, appState)
    /\ UNCHANGED <<calcVars, loraParams, pointIndexOf, addPointCalls,
                   updatePositionCalls>>

\* A frequency radio button is selected: loraParams.frequency is set and
\* updateCalculations() redraws the coverage layer if it is enabled and calls
\* analyzeLineOfSight() if there is a current analysis.
ChangeFrequency(f) ==
    /\ f # loraParams.frequency
    /\ loraParams' = [loraParams EXCEPT !.frequency = f]
    /\ appState' = IF appState.coverageEnabled
                   THEN updateCoverageLayer(appState) ELSE appState
    /\ Analyze(appState.currentAnalysis.set, appState)
    /\ UNCHANGED <<calcVars, pointIndexOf, addPointCalls, updatePositionCalls>>

\* Click on the 'Analyze LoS' button (enabled with 2 or more points).
ClickAnalyze ==
    /\ Len(appState.points) >= 2
    /\ Analyze(TRUE, appState)
    /\ UNCHANGED <<calcVars, appState, loraParams, pointIndexOf, addPointCalls,
                   updatePositionCalls>>

\* The rest of an iteration of run r once its lookups have resolved: the
\* entry is pushed, the polyline of the link is styled (a TypeError, caught,
\* if there is no such polyline), and either the next iteration runs to its
\* await or the analysis is stored and displayed.
FinishIteration(r, withBuildings) ==
    LET entry == [from |-> r.p1, to |-> r.p2, path |-> r.path,
                  frequency |-> loraParams.frequency,
                  buildings |-> withBuildings]
        analyses == Append(r.analyses, entry)
    IN  IF r.i >= appState.polylines
        THEN /\ linkAnalysisDiv' = [shows |-> "error"]
             /\ analysisRuns' = analysisRuns \ {r}
             /\ UNCHANGED appState
        ELSE IF r.i + 1 < Len(appState.points) - 1
        THEN /\ analysisRuns' = (analysisRuns \ {r})
                                   \cup {Iteration(r.run, r.i + 1, analyses, appState)}
             /\ UNCHANGED <<appState, linkAnalysisDiv>>
        ELSE /\ appState' = [appState EXCEPT !.currentAnalysis =
                                [set |-> TRUE, analyses |-> analyses, run |-> r.run]]
             /\ linkAnalysisDiv' = [shows |-> "results", analyses |-> analyses,
                                    run |-> r.run]
             /\ analysisRuns' = analysisRuns \ {r}

\* The elevation profile awaited by run r has arrived: with buildings enabled
\* the run goes on to await getBuildingsAlongPath, else it finishes the
\* iteration.
ElevationProfileResolved(r) ==
    /\ r \in analysisRuns
    /\ r.awaiting = "elevation"
    /\ IF appState.buildingsEnabled
       THEN /\ analysisRuns' = (analysisRuns \ {r}) \cup {[r EXCEPT !.awaiting = "buildings"]}
            /\ UNCHANGED <<appState, linkAnalysisDiv>>
       ELSE FinishIteration(r, FALSE)
    /\ UNCHANGED <<calcVars, loraParams, pointIndexOf, addPointCalls,
                   updatePositionCalls, analysisCalls>>

\* The building list awaited by run r has arrived.
BuildingsResolved(r) ==
    /\ r \in analysisRuns
    /\ r.awaiting = "buildings"
    /\ FinishIteration(r, TRUE)
    /\ UNCHANGED <<calcVars, loraParams, pointIndexOf, addPointCalls,
                   updatePositionCalls, analysisCalls>>

\* The application while the user places, moves and removes points, switches
\* the coverage layer and changes the frequency, and never asks for an
\* analysis.
NextApp ==
    \/ ClickAddPoint
    \/ \E place \in Places : OnMapClick(place)
    \/ \E k \in 1..Len(addPointCalls) : AddPointResolved(k)
    \/ \E m \in MarkersOnMap : MarkerDelete(m)
    \/ \E index \in 0..(MaxPoints - 1) : TableRemove(index)
    \/ \E m \in MarkersOnMap, place \in Places : MarkerDragEnd(m, place)
    \/ \E k \in 1..Len(updatePositionCalls) : UpdatePositionResolved(k)
    \/ ClearAllPoints
    \/ ToggleCoverageLayer
    \/ \E f \in PanelFrequencies : ChangeFrequency(f)

SpecApp == InitApp /\ [][NextApp]_vars

\* The application while the user places points one after the other, each
\* only when the one before has appeared, and moves and removes them.
NextMarkers ==
    \/ ClickAddPoint
    \/ \E place \in Places : addPointCalls = <<>> /\ OnMapClick(place)
    \/ \E k \in 1..Len(addPointCalls) : AddPointResolved(k)
    \/ \E m \in MarkersOnMap : MarkerDelete(m)
    \/ \E index \in 0..(MaxPoints - 1) : TableRemove(index)
    \/ \E m \in MarkersOnMap, place \in Places : MarkerDragEnd(m, place)
    \/ \E k \in 1..Len(updatePositionCalls) : UpdatePositionResolved(k)

SpecMarkers == InitApp /\ [][NextMarkers]_vars

\* The application while the user places, moves and removes points and asks
\* for analyses one after the other, with the layers left off and the
\* frequency left alone.
NextAnalysis ==
    \/ ClickAddPoint
    \/ \E place \in Places : OnMapClick(place)
    \/ \E k \in 1..Len(addPointCalls) : AddPointResolved(k)
    \/ \E index \in 0..(MaxPoints - 1) : TableRemove(index)
    \/ \E m \in MarkersOnMap, place \in Places : MarkerDragEnd(m, place)
    \/ \E k \in 1..Len(updatePositionCalls) : UpdatePositionResolved(k)
    \/ ClearAllPoints
    \/ (analysisRuns = {} /\ ClickAnalyze)
    \/ \E r \in analysisRuns : ElevationProfileResolved(r)

SpecAnalysis == InitApp /\ [][NextAnalysis]_vars

\* The application while the user places points, asks for analyses, switches
\* the buildings layer and changes the frequency; no point is moved or
\* removed.
NextOverlap ==
    \/ ClickAddPoint
    \/ \E place \in Places : OnMapClick(place)
    \/ \E k \in 1..Len(addPointCalls) : AddPointResolved(k)
    \/ ToggleBuildingsLayer
    \/ \E f \in PanelFrequencies : ChangeFrequency(f)
    \/ ClickAnalyze
    \/ \E r \in analysisRuns : ElevationProfileResolved(r)
    \/ \E r \in analysisRuns : BuildingsResolved(r)

SpecOverlap == InitApp /\ [][NextOverlap]_vars

-----------------------------------------------------------------------------
\* Claims about analyzeLineOfSight, checked under SpecLoS.

\* The call has returned for a profile of at least 2 samples.
Analyzed == losAnalysis # NoResult /\ length >= 2

\* The interior samples, indices 1 .. n-2.
Interior == 1..(length - 2)

\* C1: on a profile of at least 2 samples hasLoS is true if and only if the
\* obstructions list is empty, and every obstruction record comes from an
\* interior sample: none carries the distance of the first or of the last
\* sample, and there are at most n - 2 of them.
C1_HasLoSIffNoObstructionInteriorOnly ==
    Analyzed =>
        /\ losAnalysis.hasLoS <=> (losAnalysis.obstructions = <<>>)
        /\ Len(losAnalysis.obstructions) <= Cardinality(Interior)
        /\ \A k \in 1..Len(losAnalysis.obstructions) :
              LET o == losAnalysis.obstructions[k]
              IN  /\ \E i \in Interior : /\ o.distance = Sample(i).distance
                                         /\ o.lon = Sample(i).lon
                  /\ o.distance # Sample(0).distance
                  /\ o.distance # Sample(length - 1).distance

\* C1 witness: a 4-sample profile whose last sample is the highest point
\* (500 m), a building stands at the first sample, and exactly one
\* obstruction (an interior sample) is reported.
C1_Witness ==
    /\ Analyzed
    /\ length = 4
    /\ Sample(3).elevation = 500
    /\ Len(buildings) = 2
    /\ ~losAnalysis.hasLoS
    /\ Len(losAnalysis.obstructions) = 1

\* obstructionHeight > adjustedLineHeight + 0.6 * localFresnelRadius at
\* sample i, written out: 0.6 * r < obstructionHeight - adjustedLineHeight.
ExceedsRequired(i) ==
    /\ totalDistance # 0
    /\ LessSqrt(6, <<173, 2, earthRadius, Segments>>,
                SplitWeight(i) * totalDistance,
                HeightDen * ObstructionHeight(i) - AdjustedLineHeightNum(i),
                <<100>>, frequency)

\* The interior samples i .. n-2 that exceed the required height, in order.
RECURSIVE ExceedingFrom(_)
ExceedingFrom(i) ==
    IF i > length - 2 THEN <<>>
    ELSE (IF ExceedsRequired(i) THEN <<i>> ELSE <<>>) \o ExceedingFrom(i + 1)

\* C2: the obstructions list holds one record for each interior sample whose
\* obstruction height is strictly greater than adjustedLineHeight + 0.6 *
\* localFresnelRadius and no other record; the record carries the sample's
\* distance and obstruction height and a positive excess.  The 3-sample
\* profile 0 m, 500 m, 0 m over 2 km with 10 m antennas at 868 MHz has no
\* line of sight and exactly one obstruction, at 1 km.
C2_ObstructionPerExceedingSample ==
    Analyzed =>
        LET obs == losAnalysis.obstructions
            idx == ExceedingFrom(1)
        IN  /\ Len(obs) = Len(idx)
            /\ \A k \in 1..Len(obs) :
                  /\ obs[k].distance = Sample(idx[k]).distance
                  /\ obs[k].elevation = ObstructionHeight(idx[k])
                  /\ IsPositive(obs[k].obstruction)
            /\ ( /\ elevationProfile = MakeProfile(<<0, 500, 0>>, 2)
                 /\ point1Height = 10 /\ point2Height = 10 /\ frequency = 868 )
               => /\ ~losAnalysis.hasLoS
                  /\ Len(obs) = 1
                  \* 1 km: the distance numerator over N = 2 segments
                  /\ obs[1].distance = 1 * Segments

\* C2 witness: the 3-sample scenario has been analysed.
C2_Witness ==
    /\ Analyzed
    /\ elevationProfile = MakeProfile(<<0, 500, 0>>, 2)
    /\ point1Height = 10 /\ point2Height = 10 /\ frequency = 868
    /\ buildings = <<>>
    /\ Len(losAnalysis.obstructions) = 1

\* C3 (as claimed): hasLoS = true only if every interior sample keeps 60 % of
\* the first Fresnel zone clear, i.e. its clearance percentage is >= 60.
\* Stated for paths of positive length, where the percentage is a number.
C3_HasLoSNeedsSixtyPercent ==
    (Analyzed /\ totalDistance > 0 /\ losAnalysis.hasLoS) =>
        \A i \in Interior : PercentAtLeast(FresnelClearancePercent(i), 60)

\* The straight line between the antenna tops minus 0.6 * r, minus the
\* terrain elevation, is positive at sample i: the terrain is below the
\* straight line minus the required clearance.
BelowStraightLine(i) ==
    /\ totalDistance # 0
    /\ IsPositive(RadiusHeight(LineHeightNum(i) - HeightDen * Sample(i).elevation,
                               -6, SplitWeight(i)))

\* The same with the curvature-adjusted line (straight line minus earth bulge).
BelowAdjustedLine(i) ==
    /\ totalDistance # 0
    /\ IsPositive(RadiusHeight(AdjustedLineHeightNum(i)
                                  - HeightDen * Sample(i).elevation,
                               -6, SplitWeight(i)))

ClearGoodResult ==
    /\ losAnalysis.hasLoS
    /\ losAnalysis.obstructions = <<>>
    /\ losAnalysis.quality \in {"good", "excellent"}

\* C4 (as claimed): with no buildings, if every interior elevation is below
\* the straight line between the antenna tops minus 0.6 * r, the result is
\* hasLoS = true, no obstructions, quality good or excellent.
C4_BelowStraightLineIsClear ==
    (Analyzed /\ buildings = <<>> /\ \A i \in Interior : BelowStraightLine(i))
        => ClearGoodResult

\* C4 (amended): with no buildings, if every interior elevation is below the
\* curvature-adjusted line of sight (the straight line minus the earth bulge
\* at the sample) minus 0.6 * r, the result is hasLoS = true, no
\* obstructions, quality good or excellent.
C4_BelowAdjustedLineIsClear ==
    (Analyzed /\ buildings = <<>> /\ \A i \in Interior : BelowAdjustedLine(i))
        => ClearGoodResult

\* C4 witness: a 40 km path with interior samples, all below the adjusted
\* line minus the required clearance, judged good.
C4_Witness ==
    /\ Analyzed
    /\ buildings = <<>>
    /\ totalDistance = 40
    /\ length >= 3
    /\ \A i \in Interior : BelowAdjustedLine(i)
    /\ losAnalysis.quality = "good"

\* Some interior sample has a clearance percentage below t / all have one
\* of at least t.
SomeBelow(t) == \E i \in Interior : PercentLess(FresnelClearancePercent(i), t)
AllAtLeast(t) == \A i \in Interior : PercentAtLeast(FresnelClearancePercent(i), t)

\* C5: quality is blocked exactly when hasLoS is false; with hasLoS true it
\* is poor when the minimum clearance percentage over the interior samples
\* is < 20, marginal when it is in [20, 60), good when it is in [60, 100)
\* and excellent when it is >= 100.
C5_QualityFromMinimumClearance ==
    Analyzed =>
        /\ (losAnalysis.quality = "blocked") <=> ~losAnalysis.hasLoS
        /\ losAnalysis.hasLoS =>
              /\ SomeBelow(20) => losAnalysis.quality = "poor"
              /\ (AllAtLeast(20) /\ SomeBelow(60)) => losAnalysis.quality = "marginal"
              /\ (AllAtLeast(60) /\ SomeBelow(100)) => losAnalysis.quality = "good"
              /\ AllAtLeast(100) => losAnalysis.quality = "excellent"

\* C5 witness: a clear path whose minimum clearance lies in [20, 60) and is
\* judged marginal.
C5_Witness ==
    /\ Analyzed
    /\ losAnalysis.hasLoS
    /\ AllAtLeast(20)
    /\ SomeBelow(60)
    /\ losAnalysis.quality = "marginal"

-----------------------------------------------------------------------------
\* Claims about the calculator, checked under SpecRF.

\* calculateLinkBudget(params) has returned a result.
BudgetReturned == linkBudget # NoResult /\ ~linkBudget.threw

\* The fade margin of the call in mdB: the given one, or 10 dB when omitted.
GivenFadeMargin ==
    IF params.fadeMargin = UndefinedValue THEN 10000 ELSE params.fadeMargin.value

ValidPair == params.sf \in 7..12 /\ params.bw \in {125, 250, 500}

\* C6: with F the fade margin (10 dB when omitted), a link margin below F
\* gives status poor, one in [F, F+10) marginal, one in [F+10, F+20) good
\* and one of at least F+20 excellent; the four cases cover every margin
\* and exclude each other.
C6_StatusPartition ==
    (BudgetReturned /\ IsNumber(linkBudget.value.linkMargin)) =>
        LET m == linkBudget.value.linkMargin.value
            F == GivenFadeMargin
            st == linkBudget.value.status
        IN  /\ (m < F) <=> (st = "poor")
            /\ (F <= m /\ m < F + 10000) <=> (st = "marginal")
            /\ (F + 10000 <= m /\ m < F + 20000) <=> (st = "good")
            /\ (m >= F + 20000) <=> (st = "excellent")

\* C6 witness: a call that omits fadeMargin and has a margin in [20, 30) dB,
\* judged good.
C6_Witness ==
    /\ BudgetReturned
    /\ params.fadeMargin = UndefinedValue
    /\ IsNumber(linkBudget.value.linkMargin)
    /\ linkBudget.value.linkMargin.value >= 20000
    /\ linkBudget.value.linkMargin.value < 30000
    /\ linkBudget.value.status = "good"

\* C7: for a valid (sf, bw) pair the link margin that calculateLinkBudget
\* reports at distance calculateMaxRange(params) is within 0.1 dB of the
\* fade margin.
C7_MarginAtMaxRangeIsFadeMargin ==
    (rangeBudget # NoResult /\ ValidPair) =>
        /\ ~rangeBudget.threw
        /\ IsNumber(rangeBudget.value.linkMargin)
        /\ Abs(rangeBudget.value.linkMargin.value - GivenFadeMargin) <= 100

\* C7 witness: the budget at the maximum range of a valid pair, for a call
\* with a fade margin of 15 dB, has been computed.
C7_Witness ==
    /\ rangeBudget # NoResult
    /\ ValidPair
    /\ params.fadeMargin = DB(15)
    /\ maxRange.value.value > 1000

\* C8 (as claimed): for an sf outside 7..12 or a bw outside {125, 250, 500}
\* neither calculateLinkBudget nor calculateMaxRange returns a value: the
\* sensitivity lookup throws.
C8_InvalidPairThrows ==
    ~ValidPair =>
        /\ linkBudget # NoResult => linkBudget.threw
        /\ maxRange # NoResult => maxRange.threw

\* The call under C9: sf = 7, bw = 125, cr = 5.
C9_Call ==
    /\ BudgetReturned
    /\ params.sf = 7 /\ params.bw = 125 /\ params.cr = 5

\* C9 (as claimed): calculateDataRate(7, 125, 5) is 5468 bps.
C9_DataRateIs5468 == C9_Call => linkBudget.value.dataRate = 5468

\* C9 (amended): calculateDataRate(7, 125, 5) is 5469 bps, 5468.75 rounded to
\* the nearest integer.
C9_DataRateIs5469 == C9_Call => linkBudget.value.dataRate = 5469

\* C9 witness: the call has returned with a data rate.
C9_Witness == C9_Call /\ linkBudget.value.dataRate > 0

\* C10: on the grid sf 7..12, bw 125/250/500, cr 5..8 the rounded data rate
\* of a call is strictly greater than that of every higher sf, strictly
\* smaller than that of every higher bw and strictly greater than that of
\* every higher cr, the other two parameters kept.
C10_DataRateMonotonic ==
    (BudgetReturned /\ ValidPair) =>
        LET r == linkBudget.value.dataRate
        IN  /\ \A s \in 7..12 :
                  s > params.sf => calculateDataRate(s, params.bw, params.cr) < r
            /\ \A b \in {125, 250, 500} :
                  b > params.bw => calculateDataRate(params.sf, b, params.cr) > r
            /\ \A c \in 5..8 :
                  c > params.cr => calculateDataRate(params.sf, params.bw, c) < r

\* C10 witness: the slowest corner but one in each direction has been
\* computed: sf 11, bw 250, cr 7.
C10_Witness ==
    /\ BudgetReturned
    /\ params.sf = 11 /\ params.bw = 250 /\ params.cr = 7
    /\ linkBudget.value.dataRate > calculateDataRate(12, 250, 7)

-----------------------------------------------------------------------------
\* Claims about getRecommendedSettings, checked under SpecRec.

\* The call has returned.
Recommended == recommendations # NoResult

\* The array returned.
Recommendations == recommendations.value

\* The 18 combinations, each with its place in the iteration order.
GridPairs == (7..12) \X {125, 250, 500}
IterationRank(sf, bw) == sf * 1000 + bw

\* The link budget of the combination <<sf, bw>> under the assumptions of the
\* recommendation: txPower 14, gains 2 / 2, cr 5, fade margin 10.
GridBudget(c) ==
    calculateLinkBudget(
        [txPower |-> DB(14), txGain |-> DB(2), rxGain |-> DB(2),
         frequency |-> recInput.frequency, distance |-> recInput.distanceKm,
         sf |-> c[1], bw |-> c[2], cr |-> 5, fadeMargin |-> DB(10)]).value

\* The combinations that reach a 10 dB margin.
Qualifying == { c \in GridPairs : GridBudget(c).linkMargin.value >= 10000 }

\* dataRate * linkMargin of a qualifying combination, as Score holds it.
GridScore(c) ==
    BigTrim(BigMul(BigOf(GridBudget(c).dataRate),
                   BigOf(GridBudget(c).linkMargin.value)))

\* C11: getRecommendedSettings returns at most 3 entries, each with a link
\* margin of at least 10 dB and with score = dataRate * (linkMargin / 10),
\* in order of non-increasing score; when no combination reaches a 10 dB
\* margin the result is empty.
C11_AtMostThreeRankedQualifying ==
    Recommended =>
        /\ Len(Recommendations) <= 3
        /\ \A k \in 1..Len(Recommendations) :
              LET e == Recommendations[k]
              IN  /\ e.linkMargin.value >= 10000
                  /\ e.score = BigTrim(BigMul(BigOf(e.dataRate),
                                              BigOf(e.linkMargin.value)))
        /\ \A k \in 1..(Len(Recommendations) - 1) :
              ~BigLess(Recommendations[k].score, Recommendations[k + 1].score)
        /\ (Qualifying = {}) => (Recommendations = <<>>)

\* C11 witness: three entries of falling score are returned for a link of
\* positive length.
C11_Witness ==
    /\ Recommended
    /\ recInput.distanceKm.value > 0
    /\ Len(Recommendations) = 3
    /\ BigLess(Recommendations[3].score, Recommendations[1].score)

\* C11 second witness case: a link on which no combination qualifies.
C11_WitnessEmpty ==
    /\ Recommended
    /\ Qualifying = {}
    /\ Recommendations = <<>>

\* C12: the entries returned are distinct combinations of the 18-point grid
\* that qualify, with the data rate and margin of their budget under the
\* assumptions above; there are min(3, number of qualifying combinations) of
\* them; no qualifying combination left out has a strictly higher score than
\* a returned one; of two combinations of equal score the one earlier in
\* iteration order (sf ascending, then bw ascending) comes first.
C12_TopScoredOfTheGrid ==
    Recommended =>
        LET n == Len(Recommendations)
            pair(k) == <<Recommendations[k].sf, Recommendations[k].bw>>
            returned == { pair(k) : k \in 1..n }
            rank(c) == IterationRank(c[1], c[2])
        IN  /\ returned \subseteq Qualifying
            /\ Cardinality(returned) = n
            /\ n = (IF Cardinality(Qualifying) < 3 THEN Cardinality(Qualifying) ELSE 3)
            /\ \A k \in 1..n :
                  /\ Recommendations[k].dataRate = GridBudget(pair(k)).dataRate
                  /\ Recommendations[k].linkMargin = GridBudget(pair(k)).linkMargin
            /\ \A c \in Qualifying \ returned : \A k \in 1..n :
                  /\ ~BigLess(Recommendations[k].score, GridScore(c))
                  /\ (Recommendations[k].score = GridScore(c)) => rank(pair(k)) < rank(c)
            /\ \A k \in 1..n : \A l \in 1..n :
                  (k < l /\ Recommendations[k].score = Recommendations[l].score)
                      => rank(pair(k)) < rank(pair(l))

\* C12 witness: more than three combinations qualify, bandwidth 500 among
\* the returned ones, so that some are left out.
C12_Witness ==
    /\ Recommended
    /\ Cardinality(Qualifying) > 3
    /\ Len(Recommendations) = 3
    /\ \E k \in 1..3 : Recommendations[k].bw = 500

-----------------------------------------------------------------------------
\* Further claims about analyzeLineOfSight, checked under SpecLoS.

\* C13: on a profile of fewer than 2 samples analyzeLineOfSight returns a
\* result (it does not throw) with hasLoS = false, an empty obstructions
\* list and a Fresnel clearance of 0.
C13_FewerThanTwoSamples ==
    (losAnalysis # NoResult /\ length < 2) =>
        /\ losAnalysis.hasLoS = FALSE
        /\ losAnalysis.obstructions = <<>>
        /\ losAnalysis.fresnelClearance = Literal(0)

\* C13 witness: a profile of one sample has been analysed, with buildings
\* given.
C13_Witness ==
    /\ losAnalysis # NoResult
    /\ length = 1
    /\ buildings # <<>>
    /\ ~losAnalysis.hasLoS

\* C13 second witness case: the empty profile.
C13_WitnessEmpty ==
    /\ losAnalysis # NoResult
    /\ length = 0
    /\ ~losAnalysis.hasLoS

\* The distances of the samples (numerators over N).
SampleDistances == { Sample(i).distance : i \in 0..(length - 1) }

\* C20: calculateFresnelRadius(d1, d2, f) = calculateFresnelRadius(d2, d1, f)
\* for the two distances d1, d2 >= 0 of every sample of the analysed path
\* and for every other pair of sample distances, and when d1 + d2 = 0 both
\* are the zero radius.
C20_FresnelRadiusSymmetric ==
    Analyzed =>
        /\ \A i \in 0..(length - 1) :
              /\ D1(i) >= 0 /\ D2(i) >= 0
              /\ calculateFresnelRadius(D1(i), D2(i), frequency)
                    = calculateFresnelRadius(D2(i), D1(i), frequency)
              /\ (D1(i) + D2(i) = 0) =>
                    /\ calculateFresnelRadius(D1(i), D2(i), frequency).product = 0
                    /\ calculateFresnelRadius(D2(i), D1(i), frequency).product = 0
        /\ \A a \in SampleDistances, b \in SampleDistances :
              calculateFresnelRadius(a, b, frequency)
                  = calculateFresnelRadius(b, a, frequency)

\* C20 witness: a 4-sample path of positive length has been analysed; its
\* sample 1 splits the path unevenly (d1 = D/3, d2 = 2D/3) and has a positive
\* radius.
C20_Witness ==
    /\ Analyzed
    /\ length = 4
    /\ totalDistance > 0
    /\ 2 * D1(1) = D2(1)
    /\ LocalFresnelRadius(1).product > 0

\* Building b lies within 50 m of sample i (positions in metres; those of the
\* samples are numerators over N).
WithinFiftyMetres(i, b) ==
    LET dx == Segments * b.lon - Sample(i).lon
        dy == Segments * b.lat - Sample(i).lat
    IN  /\ Abs(dx) < 50 * Segments
        /\ Abs(dy) < 50 * Segments
        /\ dx * dx + dy * dy < 50 * 50 * Segments * Segments

\* The buildings within 50 m of sample i.
NearBuildings(i) == { m \in 1..Len(buildings) : WithinFiftyMetres(i, buildings[m]) }

\* The terrain elevation, or the highest of the terrain elevation and the
\* building tops over terrain of the buildings within 50 m.
ExpectedObstructionHeight(i) ==
    LET tops == {Sample(i).elevation}
                  \cup { Sample(i).elevation + buildings[m].height : m \in NearBuildings(i) }
    IN  CHOOSE h \in tops : \A g \in tops : g <= h

\* The scan of the samples 1 .. i with the obstruction heights hts.
RECURSIVE ScanWithHeights(_, _)
ScanWithHeights(hts, i) ==
    IF i < 1
    THEN [obstructions |-> <<>>, minClearance |-> Infinity]
    ELSE LET before == ScanWithHeights(hts, i - 1)
             req == RequiredHeight(i)
             excess == IF req.nan THEN NaNHeight
                       ELSE RadiusHeight(HeightDen * hts[i] - req.num, -req.coef10, req.w)
             percent == IF LineIsNaN THEN NaN
                        ELSE Ratio(AdjustedLineHeightNum(i) - HeightDen * hts[i],
                                   RadiusWeight(i))
         IN  [obstructions |->
                 IF IsPositive(excess)
                 THEN Append(before.obstructions,
                             [distance |-> Sample(i).distance,
                              elevation |-> hts[i],
                              requiredHeight |-> req,
                              obstruction |-> excess,
                              lat |-> Sample(i).lat,
                              lon |-> Sample(i).lon,
                              type |-> IF hts[i] > Sample(i).elevation + 5
                                       THEN "building" ELSE "terrain"])
                 ELSE before.obstructions,
              minClearance |-> MathMin(before.minClearance, percent)]

\* The result of the analysis when the obstruction heights are hts.
ResultWithHeights(hts) ==
    LET scan == ScanWithHeights(hts, length - 2)
    IN  [hasLoS |-> scan.obstructions = <<>>,
         obstructions |-> scan.obstructions,
         fresnelClearance |-> scan.minClearance,
         quality |-> Quality(scan.obstructions = <<>>, scan.minClearance),
         totalDistance |-> totalDistance]

\* C14: the result is the one obtained when the obstruction height of each
\* interior sample is its terrain elevation if no building lies within 50 m
\* of it, and else the maximum of the terrain elevation and of terrain
\* elevation + building height over the buildings within 50 m; when no
\* building lies within 50 m of any interior sample the result is the one
\* obtained with the terrain elevations alone, that is with no buildings.
C14_ObstructionHeightFromNearBuildings ==
    Analyzed =>
        /\ losAnalysis = ResultWithHeights([i \in Interior |-> ExpectedObstructionHeight(i)])
        /\ (\A i \in Interior : NearBuildings(i) = {})
              => losAnalysis = ResultWithHeights([i \in Interior |-> Sample(i).elevation])

\* C14 witness: two buildings of 5 m and 3 m, in this order, lie within 50 m
\* of an obstructing sample and the obstruction is recorded 5 m over terrain.
C14_Witness ==
    /\ Analyzed
    /\ \E i \in Interior :
          /\ Cardinality(NearBuildings(i)) = 2
          /\ buildings[1].height > buildings[2].height
          /\ \E k \in 1..Len(losAnalysis.obstructions) :
                /\ losAnalysis.obstructions[k].distance = Sample(i).distance
                /\ losAnalysis.obstructions[k].elevation = Sample(i).elevation + 5

\* C14 second witness case: buildings are given, all of them farther than
\* 50 m from every interior sample, and an obstruction is recorded.
C14_WitnessFar ==
    /\ Analyzed
    /\ buildings # <<>>
    /\ \A i \in Interior : NearBuildings(i) = {}
    /\ losAnalysis.obstructions # <<>>

\* Record o comes from sample i: it carries its distance and position.
RecordOf(o, i) ==
    /\ o.distance = Sample(i).distance
    /\ o.lat = Sample(i).lat
    /\ o.lon = Sample(i).lon

\* C15: every recorded obstruction is of type 'building' exactly when its
\* obstruction height exceeds the terrain elevation of its sample by more
\* than 5 m, and 'terrain' otherwise; with an empty building list every
\* obstruction is 'terrain'.
C15_TypeByHeightOverTerrain ==
    Analyzed =>
        \A k \in 1..Len(losAnalysis.obstructions) :
            LET o == losAnalysis.obstructions[k]
            IN  /\ o.type \in {"building", "terrain"}
                /\ \E i \in Interior : RecordOf(o, i)
                /\ \A i \in Interior : RecordOf(o, i) =>
                      ((o.type = "building") <=> (o.elevation > Sample(i).elevation + 5))
                /\ (buildings = <<>>) => o.type = "terrain"

\* C15 witness: an obstruction raised by buildings to exactly 5 m over the
\* terrain is recorded as terrain.
C15_Witness ==
    /\ Analyzed
    /\ buildings # <<>>
    /\ \E k \in 1..Len(losAnalysis.obstructions) : \E i \in Interior :
          /\ RecordOf(losAnalysis.obstructions[k], i)
          /\ losAnalysis.obstructions[k].elevation = Sample(i).elevation + 5
          /\ losAnalysis.obstructions[k].type = "terrain"

\* C15 second witness case: an obstruction 30 m over the terrain is recorded
\* as a building.
C15_WitnessBuilding ==
    /\ Analyzed
    /\ \E k \in 1..Len(losAnalysis.obstructions) : \E i \in Interior :
          /\ RecordOf(losAnalysis.obstructions[k], i)
          /\ losAnalysis.obstructions[k].elevation = Sample(i).elevation + 30
          /\ losAnalysis.obstructions[k].type = "building"

\* (adjustedLineHeight - obstructionHeight) / localFresnelRadius * 100 of
\* sample i on a path of positive length, written out: the line runs from
\* the first antenna top to the second, at the fraction i / N; the earth
\* bulge is d1 * d2 / (2 * 6371) * 1000 with d1 = i * D / N, d2 = (N - i) * D / N;
\* all over the denominator 2 * 6371 * N^2.  The local Fresnel radius is
\* 17.3 * sqrt(d1 * d2 / (f * D)), of weight i * (N - i).
ClearancePercentOf(i) ==
    LET top1 == Sample(0).elevation + point1Height
        top2 == Sample(length - 1).elevation + point2Height
        line == 2 * 6371 * Segments * Segments * top1
                  + 2 * 6371 * Segments * i * (top2 - top1)
        bulge == i * (Segments - i) * totalDistance * totalDistance * 1000
        height == 2 * 6371 * Segments * Segments * ObstructionHeight(i)
    IN  [kind |-> "ratio", clr |-> line - bulge - height, w |-> i * (Segments - i)]

\* a < b for two such percentages: a.clr / sqrt(a.w) < b.clr / sqrt(b.w).
RatioLess(a, b) == LessSqrt(a.clr, <<>>, b.w, b.clr, <<>>, a.w)

\* C16: on a profile with interior samples the Fresnel clearance reported is
\* the minimum over the interior samples of (adjustedLineHeight -
\* obstructionHeight) / localFresnelRadius * 100: it is the percentage of
\* one interior sample and no interior sample has a smaller one.  On a path
\* of length 0 every one of these percentages is NaN, and so is the
\* clearance reported.
C16_ClearanceIsMinimumOverInterior ==
    (Analyzed /\ length >= 3) =>
        IF totalDistance = 0
        THEN losAnalysis.fresnelClearance = NaN
        ELSE /\ \E i \in Interior : losAnalysis.fresnelClearance = ClearancePercentOf(i)
             /\ \A j \in Interior :
                   ~RatioLess(ClearancePercentOf(j), losAnalysis.fresnelClearance)

\* C16 witness: on a 4-sample path of positive length the first interior
\* sample has a strictly smaller percentage than the second, and it is the
\* one reported.
C16_Witness ==
    /\ Analyzed
    /\ length = 4
    /\ totalDistance > 0
    /\ RatioLess(ClearancePercentOf(1), ClearancePercentOf(2))
    /\ losAnalysis.fresnelClearance = ClearancePercentOf(1)

\* C17: the obstructions are in path order: of two records the earlier one
\* comes from the earlier sample and its distance is not greater.
C17_ObstructionsInPathOrder ==
    Analyzed =>
        \A k \in 1..Len(losAnalysis.obstructions) :
        \A l \in 1..Len(losAnalysis.obstructions) :
            k < l =>
                /\ losAnalysis.obstructions[k].distance
                      <= losAnalysis.obstructions[l].distance
                /\ \E i \in Interior, j \in Interior :
                      /\ i < j
                      /\ RecordOf(losAnalysis.obstructions[k], i)
                      /\ RecordOf(losAnalysis.obstructions[l], j)

\* C17 witness: two obstructions are recorded, at different distances.
C17_Witness ==
    /\ Analyzed
    /\ Len(losAnalysis.obstructions) = 2
    /\ losAnalysis.obstructions[1].distance < losAnalysis.obstructions[2].distance

-----------------------------------------------------------------------------
\* Claims about interpolatePath and getElevationProfile, checked under SpecPath.

\* getElevationProfile has returned.
Profiled == pathProfile # NoResult

\* C18: for a sample count N >= 1 the profile has exactly N + 1 samples;
\* sample i lies at point1 + (point2 - point1) * (i / N) in latitude and in
\* longitude (numerators over N), sample 0 at point1 and sample N at point2;
\* sample i has the distance (i / N) * totalDistance, so the distances start
\* at 0, end at totalDistance, do not decrease and are uniformly spaced.
\* For N = 0 the profile has N + 1 = 1 sample.
C18_SamplesAtUniformFractions ==
    Profiled =>
        LET N == pathInput.numSamples
            p1 == pathInput.point1
            p2 == pathInput.point2
            D == pathInput.distance
            at(i) == pathProfile.profile[i + 1]
        IN  /\ Len(pathProfile.profile) = N + 1
            /\ pathProfile.totalDistance = D
            /\ N >= 1 =>
                  /\ \A i \in 0..N :
                        /\ at(i).lat = N * p1.lat + i * (p2.lat - p1.lat)
                        /\ at(i).lon = N * p1.lon + i * (p2.lon - p1.lon)
                        /\ at(i).distance = i * D
                  /\ at(0).lat = N * p1.lat /\ at(0).lon = N * p1.lon
                  /\ at(N).lat = N * p2.lat /\ at(N).lon = N * p2.lon
                  /\ at(0).distance = 0
                  /\ at(N).distance = N * D
                  /\ \A i \in 0..(N - 1) :
                        /\ at(i).distance <= at(i + 1).distance
                        /\ at(i + 1).distance - at(i).distance = D

\* C18 witness: the slanted 500 m path has been sampled with N = 5; its last
\* sample lies at point2, 500 m from the start.
C18_Witness ==
    /\ Profiled
    /\ pathInput.numSamples = 5
    /\ pathInput.point1 = [lat |-> 30, lon |-> -40]
    /\ pathInput.distance = 500
    /\ Len(pathProfile.profile) = 6
    /\ pathProfile.profile[6].lat = 5 * 330
    /\ pathProfile.profile[6].distance = 5 * 500

-----------------------------------------------------------------------------
\* Further claims about the calculator, checked under SpecRF.

\* 20 * log10(x) in mdB, to the nearest mdB, for the distances (km) and the
\* frequencies (MHz) of the calls.
TwentyLogOfKm == (1 :> 0) @@ (10 :> 20000) @@ (30 :> 29542) @@ (100 :> 40000)
TwentyLogOfMHz == (433 :> 52730) @@ (868 :> 58770)

\* C19: the path loss of a link budget is exactly 0 for a distance <= 0,
\* whatever the frequency, and for a distance d > 0 it is
\* 20 * log10(d) + 20 * log10(f) + 32.45 dB (to 0.01 dB).
C19_PathLossZeroOrFormula ==
    BudgetReturned =>
        LET d == params.distance.value
            loss == linkBudget.value.pathLoss
        IN  /\ d <= 0 => loss = Literal(0)
            /\ d > 0 =>
                  /\ IsNumber(loss)
                  /\ Abs(loss.value - (TwentyLogOfKm[d \div 1000]
                                         + TwentyLogOfMHz[params.frequency] + 32450)) <= 10

\* C19 witness: a budget for a negative distance has been computed, with a
\* path loss of 0.
C19_Witness ==
    /\ BudgetReturned
    /\ params.distance.value < 0
    /\ linkBudget.value.pathLoss = Literal(0)

\* C19 second witness case: distance 0.
C19_WitnessZero ==
    /\ BudgetReturned
    /\ params.distance.value = 0
    /\ linkBudget.value.pathLoss = Literal(0)

\* C19 third witness case: 30 km at 868 MHz, 120.76 dB.
C19_WitnessFormula ==
    /\ BudgetReturned
    /\ params.distance.value = 30000
    /\ params.frequency = 868
    /\ Abs(linkBudget.value.pathLoss.value - 120762) <= 10

-----------------------------------------------------------------------------
\* Claims about the Fresnel radius functions, checked under SpecFresnel.

FresnelCalled == fresnelRadii # NoResult

\* Radius r is at most radius s: the quotients under the two roots compared
\* by cross-multiplication (both divisors are positive).
RadiusAtMost(r, s) == r.product * s.divisor <= s.product * r.divisor

\* C21: for a total distance D = d1 + d2 > 0 with d1, d2 >= 0 and a frequency
\* f, calculateMaxFresnelRadius(D, f) is greater than or equal to
\* calculateFresnelRadius(d1, d2, f).
C21_MaxRadiusBoundsEverySplit ==
    (FresnelCalled /\ fresnelInput.d1 + fresnelInput.d2 > 0) =>
        /\ fresnelInput.d1 >= 0
        /\ fresnelInput.d2 >= 0
        /\ RadiusAtMost(fresnelRadii.local, fresnelRadii.max)

\* C21 witness: an uneven split of a path of positive length, both parts
\* positive, whose radius is strictly below the maximum.
C21_Witness ==
    /\ FresnelCalled
    /\ fresnelInput.d1 > 0
    /\ fresnelInput.d2 > fresnelInput.d1
    /\ fresnelRadii.local.product > 0
    /\ ~RadiusAtMost(fresnelRadii.max, fresnelRadii.local)

\* C21 witness: the even split, whose radius equals the maximum.
C21_WitnessMidpoint ==
    /\ FresnelCalled
    /\ fresnelInput.d1 > 0
    /\ fresnelInput.d1 = fresnelInput.d2
    /\ fresnelRadii.local = fresnelRadii.max

-----------------------------------------------------------------------------
\* Claims about getSensitivity, checked under SpecRF.

\* calculateLinkBudget has returned for a bandwidth and a spreading factor of
\* the table; its sensitivity field is what getSensitivity returned.
SensitivityLookedUp ==
    /\ linkBudget # NoResult
    /\ params.bw \in {125, 250, 500}
    /\ params.sf \in 7..12

\* C22: for each bandwidth in {125, 250, 500}, the sensitivity returned by
\* getSensitivity for a spreading factor sf in 7 .. 12 is a number of dBm,
\* and the sensitivity of every higher spreading factor up to 12 at the same
\* bandwidth is less than or equal to it.
C22_SensitivityNonIncreasingInSf ==
    SensitivityLookedUp =>
        /\ ~linkBudget.threw
        /\ linkBudget.value.sensitivity = getSensitivity(params.sf, params.bw).value
        /\ IsNumber(linkBudget.value.sensitivity)
        /\ \A higher \in (params.sf + 1)..12 :
              /\ ~getSensitivity(higher, params.bw).threw
              /\ IsNumber(getSensitivity(higher, params.bw).value)
              /\ getSensitivity(higher, params.bw).value.value
                    <= linkBudget.value.sensitivity.value

\* C22 witness: the sensitivity at SF9 / 250 kHz has been looked up, and the
\* one of SF10 is strictly lower.
C22_Witness ==
    /\ SensitivityLookedUp
    /\ params.sf = 9
    /\ params.bw = 250
    /\ NumLess(getSensitivity(10, 250).value, linkBudget.value.sensitivity)

-----------------------------------------------------------------------------
\* Claims about calculateTimeOnAir, checked under SpecAir.

AirCalled == timeOnAir # NoResult

\* ceil((8 * payloadBytes - 4 * sf + 28) / (4 * sf)): the least integer that
\* is not below the quotient.
CeilOfPayloadTerm ==
    CHOOSE n \in -1..(2 * airInput.payloadBytes + 2) :
        /\ n * (4 * airInput.sf) >= 8 * airInput.payloadBytes - 4 * airInput.sf + 28
        /\ (n - 1) * (4 * airInput.sf) < 8 * airInput.payloadBytes - 4 * airInput.sf + 28

\* payload symbols = 8 + max(ceil(...) * cr, 0)
PayloadSymbols ==
    IF CeilOfPayloadTerm * airInput.cr > 0 THEN 8 + CeilOfPayloadTerm * airInput.cr ELSE 8

\* (12.25 + payload symbols) * (2^sf / bw_Hz) seconds, as the quotient
\* num / den of naturals: (49 + 4 * payload symbols) * 2^sf over 4 * bw_Hz.
AirtimeSeconds ==
    [num |-> (49 + 4 * PayloadSymbols) * Pow2(airInput.sf),
     den |-> 4 * airInput.bw * 1000]

\* The returned value equals factor * AirtimeSeconds.
ReturnedIsTimes(factor) ==
    BigTrim(BigMul(timeOnAir.value.num, BigOf(AirtimeSeconds.den)))
        = BigTrim(BigMul(BigProd(<<factor, AirtimeSeconds.num>>), timeOnAir.value.den))

\* C23 (as the code has it): calculateTimeOnAir returns the total airtime in
\* milliseconds, 1000 * (12.25 + payload symbols) * (2^sf / bw_Hz) with
\* payload symbols = 8 + max(ceil((8*payloadBytes - 4*sf + 28) / (4*sf)) * cr, 0).
C23_AirtimeInMilliseconds == AirCalled => ReturnedIsTimes(1000)

\* C23 (as stated): calculateTimeOnAir returns the total airtime in seconds,
\* (12.25 + payload symbols) * (2^sf / bw_Hz).
C23_AirtimeInSeconds == AirCalled => ReturnedIsTimes(1)

\* C23 witness: the airtime of a 51-byte payload at SF12 / 125 kHz / CR 4/5 has
\* been computed: 8 + ceil(388 / 48) * 5 = 53 payload symbols.
C23_Witness ==
    /\ AirCalled
    /\ airInput = [payloadBytes |-> 51, sf |-> 12, bw |-> 125, cr |-> 5]
    /\ PayloadSymbols = 53

\* C23 witness: an empty payload at SF12, where the ceiling is 0 and the
\* maximum leaves the 8 fixed payload symbols.
C23_WitnessEmptyPayload ==
    /\ AirCalled
    /\ airInput.payloadBytes = 0
    /\ airInput.sf = 12
    /\ PayloadSymbols = 8

-----------------------------------------------------------------------------
\* Claim about profiles without interior samples, checked under SpecLoS.

\* C30: for a profile of exactly 2 samples analyzeLineOfSight returns
\* hasLoS = true, an empty obstructions list and quality 'excellent',
\* whatever the elevations, antenna heights, frequency and buildings are,
\* and the Fresnel clearance it reports is +Infinity.
C30_TwoSamplesAlwaysClear ==
    (Analyzed /\ length = 2) =>
        /\ losAnalysis.hasLoS
        /\ losAnalysis.obstructions = <<>>
        /\ losAnalysis.quality = "excellent"
        /\ losAnalysis.fresnelClearance = Infinity

\* C30 witness: a 2-sample profile over a 500 m rise has been analysed with a
\* 30 m building standing on the first endpoint, above the 10 m antenna.
C30_Witness ==
    /\ Analyzed
    /\ length = 2
    /\ totalDistance > 0
    /\ Sample(0).elevation # Sample(1).elevation
    /\ \E m \in 1..Len(buildings) :
          /\ BuildingIsNear(0, buildings[m])
          /\ buildings[m].height > point1Height

\* C30 witness: a 2-sample profile whose endpoints coincide.
C30_WitnessZeroLength ==
    /\ Analyzed
    /\ length = 2
    /\ totalDistance = 0

-----------------------------------------------------------------------------
\* Claim about the colour of an analysed link, checked under SpecLink.

LinkAnalysed == linkColor # NoResult

\* The link quality is the status of the link budget.
LinkQuality == linkBudget.value.status

\* The colour the polyline of the link has got.
Colour == linkColor.value

\* C24: the colour of an analysed link is green (#00ff88) exactly when line
\* of sight is clear and link quality is excellent or good; it is orange
\* (#ffaa00) when line of sight is clear and either link quality is marginal
\* or the Fresnel clearance is limited (LoS quality marginal or poor); it is
\* red (#ff4466) exactly when line of sight is blocked or link quality is poor.
C24_ColourFollowsDocumentedCoding ==
    LinkAnalysed =>
        /\ (Colour = "#00ff88") <=>
              (losAnalysis.hasLoS /\ LinkQuality \in {"excellent", "good"})
        /\ (losAnalysis.hasLoS /\ (LinkQuality = "marginal"
                                      \/ losAnalysis.quality \in {"marginal", "poor"}))
              => (Colour = "#ffaa00")
        /\ (Colour = "#ff4466") <=>
              (~losAnalysis.hasLoS \/ LinkQuality = "poor")

-----------------------------------------------------------------------------
\* Claims about the points, the markers and the coverage layer of the
\* application, checked under SpecApp.

Points == appState.points
Markers == appState.markers

\* C25: in every state reached by interleavings of map clicks (addPoint, which
\* awaits an elevation before it stores the point), removePoint and
\* clearAllPoints, the points and markers lists have equal length, markers[i]
\* is the marker of points[i], and points[i].label is the i-th letter
\* A, B, C, ...
C25_PointsMarkersLabelsInStep ==
    /\ Len(Points) = Len(Markers)
    /\ \A i \in 1..Len(Points) :
          /\ Markers[i] = Points[i].marker
          /\ Points[i].label = Letter(i - 1)

\* The handlers of marker m address the point that m represents: the index
\* they hold is within the points list and is the index of the point whose
\* marker is m.
AddressesOwnPoint(m, index) ==
    /\ index < Len(Points)
    /\ Points[index + 1].marker = m

\* C26 (checked under SpecMarkers, where no two additions overlap): after any
\* sequence of point additions and removals, the delete action
\* and the drag-end action of every marker on the map address the point that
\* this marker currently represents, never an index outside the points list;
\* so does every updatePointPosition call that a drag of such a marker has
\* started.
C26_MarkerActionsAddressOwnPoint ==
    /\ \A m \in MarkersOnMap : AddressesOwnPoint(m, pointIndexOf[m])
    /\ \A k \in 1..Len(updatePositionCalls) :
          updatePositionCalls[k].marker \in MarkersOnMap =>
              AddressesOwnPoint(updatePositionCalls[k].marker,
                                updatePositionCalls[k].index)

\* C29: in every reachable state, if the coverage layer is disabled there are
\* no coverage circles, and if it is enabled there is exactly one coverage
\* circle per current point, centred on that point's current position.
C29_OneCirclePerPoint ==
    IF ~appState.coverageEnabled
    THEN appState.coverageCircles = <<>>
    ELSE /\ Len(appState.coverageCircles) = Len(Points)
         /\ \A i \in 1..Len(Points) :
               appState.coverageCircles[i]
                   = [lat |-> Points[i].lat, lon |-> Points[i].lon]

-----------------------------------------------------------------------------
\* Claim about the stored analysis, checked under SpecAnalysis.

\* Entry e describes the link between the current points[i] and points[i + 1].
DescribesLink(e, i) ==
    /\ e.from = Points[i].marker
    /\ e.to = Points[i + 1].marker
    /\ e.path = PathOf(Points[i], Points[i + 1])

\* C27: whenever no analysis is in flight, appState.currentAnalysis is either
\* null or holds exactly points.length - 1 entries, entry i describing the
\* link between the current points[i] and points[i+1].
C27_CurrentAnalysisMatchesPoints ==
    (analysisRuns = {}) =>
        \/ ~appState.currentAnalysis.set
        \/ /\ Len(appState.currentAnalysis.analyses) = Len(Points) - 1
           /\ \A i \in 1..(Len(Points) - 1) :
                 DescribesLink(appState.currentAnalysis.analyses[i], i)

-----------------------------------------------------------------------------
\* Claim about overlapping analyses, checked under SpecOverlap.

\* Several analyses have been started and all of them have completed.
AllCompleted == analysisCalls >= 2 /\ analysisRuns = {}

\* No point has been added since the stored analysis ran.
PointsAsAnalysed ==
    appState.currentAnalysis.set =>
        Len(appState.currentAnalysis.analyses) = Len(Points) - 1

\* The stored results are displayed and reflect the current points,
\* frequency and buildings setting.
ResultsReflectSettings ==
    /\ appState.currentAnalysis.set
    /\ linkAnalysisDiv.shows = "results"
    /\ linkAnalysisDiv.analyses = appState.currentAnalysis.analyses
    /\ \A i \in 1..(Len(Points) - 1) :
          /\ DescribesLink(appState.currentAnalysis.analyses[i], i)
          /\ appState.currentAnalysis.analyses[i].frequency = loraParams.frequency
          /\ appState.currentAnalysis.analyses[i].buildings = appState.buildingsEnabled

\* C28: when several analyses have been started, overlapping or not, then
\* once all of them have completed, currentAnalysis and the displayed
\* results reflect the current parameters, buildings setting and points, as
\* those of the most recently started analysis do: no result of an older
\* analysis has replaced them.
C28_NewestAnalysisPrevails ==
    (AllCompleted /\ PointsAsAnalysed) => ResultsReflectSettings

====
